---------------------------- MODULE Spec2Model ----------------------------
(***************************************************************************)
(* Model of the jitsi-dashboard Django application: the ORM tables         *)
(* (JitsiServer, Conference, Participant, WebhookEvent,                    *)
(* DashboardSettings), the views that write them (create/edit/delete,     *)
(* the participant synchronisation and kick, the Jicofo reservation        *)
(* endpoint, the room access check, the webhook handler and the settings   *)
(* page) and the JWT functions of the JitsiAPI client.                     *)
(*                                                                         *)
(* The views run in autocommit mode: every statement is committed as it is *)
(* executed.  Each view and each save() is one action per statement sent   *)
(* to the database, reads included; what the request holds in memory       *)
(* between two statements (the instance it loaded, its arguments) is kept  *)
(* in `pending`.  The operators named after a handler (RoomUpserted,       *)
(* HandleRoomCreated, ...) are the same statements applied one after the   *)
(* other with nothing served in between.  The specifications that serve    *)
(* the requests one after the other begin a request only when none is in   *)
(* flight; the specifications named ...Race interleave the statements of   *)
(* concurrent requests.                                                    *)
(***************************************************************************)
EXTENDS Integers, Sequences, FiniteSets, TLC

VARIABLES
    servers,        \* JitsiServer table: set of rows
    nextServerPk,   \* next auto-increment pk of JitsiServer
    lastPrimary,    \* history: pk of the row most recently saved with is_primary=True (0: none)
    conferences,    \* Conference table: set of rows
    nextConfPk,     \* next auto-increment pk of Conference
    confInserts,    \* number of INSERTs into Conference so far
    participants,   \* Participant table: set of rows
    nextPartPk,     \* next auto-increment pk of Participant
    revokeCalls,    \* history: the room names RevokedRoom.revoke was called with
    settingsRows,   \* DashboardSettings table: set of rows
    settingsObj,    \* the row the last get_settings() returned: <<>> or <<row>>
    now,            \* timezone.now(): the instant of the requests
    resp,           \* the last request and its answer
    webhookEvents,  \* WebhookEvent table: set of rows
    nextEventPk,    \* next auto-increment pk of WebhookEvent
    pending,        \* requests and save() calls between two of their statements: set
                    \* of records with the operation, the statement that comes
                    \* next, the instance held in memory and the arguments
    jwtCall,        \* JitsiAPI: the config of the client and the arguments of a call
    jwtResult       \* JitsiAPI: the outcome of the call

vars == <<servers, nextServerPk, lastPrimary, conferences, nextConfPk, confInserts,
          participants, nextPartPk, revokeCalls, settingsRows, settingsObj,
          now, resp, webhookEvents, nextEventPk, pending, jwtCall, jwtResult>>

----------------------------------------------------------------------------
(* Bounds of the model *)

MaxServers == 3
MaxConf == 2
MaxPart == 2
MaxEvents == 2
MaxClock == 2
MaxPending == 2
MaxReinserts == 1

\* The length of one step of the clock, in seconds, and the 60 of
\* total_seconds() / 60
SecondsPerTick == 60
SecondsPerMinute == 60

----------------------------------------------------------------------------
(* Values *)

\* A nullable DateTimeField: <<>> is NULL, <<t>> is the instant t.
NULL == <<>>
At(t) == <<t>>

\* Room names are strings, modelled as sequences of characters.
EmptyName == <<>>
RoomNames == { <<"a">>, <<"A", " ", "b">>, <<"a", "-", "b">> }

LowerChar(c) == IF c = "A" THEN "a" ELSE IF c = "B" THEN "b" ELSE c

\* str.lower()
Lower(s) == [i \in DOMAIN s |-> LowerChar(s[i])]

\* str.replace(" ", "-")
ReplaceSpaces(s) == [i \in DOMAIN s |-> IF s[i] = " " THEN "-" ELSE s[i]]

\* str.strip(): the string without its leading and trailing spaces
RECURSIVE LStrip(_)
LStrip(s) == IF s # <<>> /\ Head(s) = " " THEN LStrip(Tail(s)) ELSE s

RECURSIVE RStrip(_)
RStrip(s) == IF s # <<>> /\ s[Len(s)] = " " THEN RStrip(SubSeq(s, 1, Len(s) - 1)) ELSE s

Strip(s) == RStrip(LStrip(s))

\* The room names a dashboard form sends: the room names, one padded with
\* spaces and the empty one
FormNames == RoomNames \cup { <<" ", "a", " ">>, EmptyName }

\* room_name.replace(" ", "-").lower()
CleanRoomName(s) == Lower(ReplaceSpaces(s))

Statuses == {"active", "ended", "scheduled"}

----------------------------------------------------------------------------
(* JitsiServer *)

\* Meta.ordering = ['-is_primary', 'name']
ServerBefore(s, o) ==
    \/ s.is_primary /\ ~o.is_primary
    \/ s.is_primary = o.is_primary /\ s.name <= o.name

\* QuerySet.first() on JitsiServer: the empty set, or the first row in order
ServerFirst(S) == { s \in S : \A o \in S : ServerBefore(s, o) }

\* JitsiServer.objects.filter(is_primary=True).first()
PrimaryServer(srv) == ServerFirst({ s \in srv : s.is_primary })

\* JitsiServer.objects.filter(is_active=True).first()
ActiveServer(srv) == ServerFirst({ s \in srv : s.is_active })

\* The two reads with nothing served in between: the primary server, else
\* the first active one
DefaultServer(srv) ==
    IF PrimaryServer(srv) # {} THEN PrimaryServer(srv) ELSE ActiveServer(srv)

\* save() without the demotion of the other primary rows
ServerDemotedNone(srv, row) == srv

\* JitsiServer.save(), first statement: when the instance is primary, the
\* UPDATE that demotes the other primary rows.  The pk of an instance that was
\* never saved is 0 (None) and excludes no row.
ServerDemoted(srv, row) ==
    IF row.is_primary
    THEN { IF s.is_primary /\ s.pk # row.pk
           THEN [s EXCEPT !.is_primary = FALSE] ELSE s : s \in srv }
    ELSE srv

\* JitsiServer.save(), second statement: super().save() inserts or updates the
\* row of the instance, and fails (IntegrityError) when another row has its
\* name
ServerRowWritten(srv, row) ==
    IF \E s \in srv : s.pk # row.pk /\ s.name = row.name
    THEN srv
    ELSE { s \in srv : s.pk # row.pk } \cup { row }

\* JitsiServer.save() with nothing served between its two statements
ServerSaved(srv, row) == ServerRowWritten(ServerDemoted(srv, row), row)

\* Whether super().save() of `row` wrote the row
ServerWritten(srv, row) == row \in ServerRowWritten(srv, row)


----------------------------------------------------------------------------
(* Conference and Participant tables *)

\* The rows of the two tables and their counters, as one value
DB(confs, parts, nc, np, ni) ==
    [conferences |-> confs, participants |-> parts, nextConfPk |-> nc, nextPartPk |-> np,
     confInserts |-> ni]

\* Conference(...) with the model's field defaults, before it is saved: no
\* pk (0) and no created_at (0)
NewConference(room, server, status, started, origin) ==
    [pk |-> 0, room_name |-> room, server |-> server, status |-> status,
     started_at |-> started, ended_at |-> NULL, max_participants |-> 0,
     created_at |-> 0, origin |-> origin]

\* created_at = models.DateTimeField(auto_now_add=True): every INSERT of an
\* instance sets it to the instant of the INSERT.  No two INSERTs have the
\* same instant: the instant of the INSERT number n is n.
InsertedAt(row, n) == [row EXCEPT !.created_at = n]

\* The INSERT of a new instance, the INSERT number n: the row gets the pk
ConfCreated(row, pk, n) == [InsertedAt(row, n) EXCEPT !.pk = pk]

\* Participant.objects.create(...)
NewParticipant(pk, conf, pid) ==
    [pk |-> pk, conference |-> conf, participant_id |-> pid, left_at |-> NULL]

\* int(a / b): the quotient rounded towards zero
TruncDiv(a, b) == IF a >= 0 THEN a \div b ELSE -((-a) \div b)

\* Conference.duration, in minutes, read at instant t
Duration(c, t) ==
    IF c.started_at # NULL /\ c.ended_at # NULL
    THEN TruncDiv((c.ended_at[1] - c.started_at[1]) * SecondsPerTick, SecondsPerMinute)
    ELSE IF c.started_at # NULL /\ c.status = "active"
         THEN TruncDiv((t - c.started_at[1]) * SecondsPerTick, SecondsPerMinute)
         ELSE 0

\* QuerySet.first() on Conference (Meta.ordering = ['-created_at']): the
\* empty set, or the row with the latest created_at
ConfFirst(S) == { c \in S : \A o \in S : o.created_at <= c.created_at }

\* Model.save() of an instance that has a pk, first statement: the UPDATE of
\* the row with that pk, which writes every field of the instance
ConfUpdated(confs, row) == { IF c.pk = row.pk THEN row ELSE c : c \in confs }

\* Whether the UPDATE of Model.save() matches a row
ConfStored(confs, row) == \E c \in confs : c.pk = row.pk

\* Model.save(), second statement, executed when the UPDATE matched no row:
\* the INSERT of the instance with its pk, the INSERT number n
ConfInserted(confs, row, n) == confs \cup { InsertedAt(row, n) }

\* Model.save() with nothing served between its statements
ConfSaved(confs, row, n) ==
    IF ConfStored(confs, row) THEN ConfUpdated(confs, row) ELSE ConfInserted(confs, row, n)

\* conference.participants.filter(left_at__isnull=True).count()
ActiveCount(parts, confPk) ==
    Cardinality({ p \in parts : p.conference = confPk /\ p.left_at = NULL })

\* A handler's outcome: the tables it leaves, and whether it raised
Done(db) == [db |-> db, raised |-> FALSE]
Raised(db) == [db |-> db, raised |-> TRUE]

\* update_or_create(room_name, server, defaults), the SELECT ... FOR UPDATE
\* of its get_or_create: the rows with the room name and the server
RoomMatch(confs, spk, room) == { c \in confs : c.room_name = room /\ c.server = spk }

\* update_or_create on the one row it found and locked: the defaults are
\* assigned and the row is saved
RoomStarted(confs, c, t) ==
    ConfUpdated(confs, [c EXCEPT !.status = "active", !.started_at = At(t)])

\* update_or_create when it found no row: the instance it creates
RoomToCreate(spk, room, t) == NewConference(room, spk, "active", At(t), "webhook")

\* _handle_room_created: Conference.objects.update_or_create(room_name,
\* server, defaults) with nothing served between its statements
RoomUpserted(db, spk, room, t) ==
    LET match == RoomMatch(db.conferences, spk, room)
    IN  IF Cardinality(match) > 1 THEN Raised(db)     \* MultipleObjectsReturned
        ELSE IF match # {}
        THEN Done([db EXCEPT !.conferences = RoomStarted(@, CHOOSE c \in match : TRUE, t)])
        ELSE Done([db EXCEPT
                    !.conferences = @ \cup
                        { ConfCreated(RoomToCreate(spk, room, t), db.nextConfPk,
                                      db.confInserts + 1) },
                    !.nextConfPk = @ + 1,
                    !.confInserts = @ + 1])

\* _handle_room_created with nothing served between its statements
HandleRoomCreated(db, srv, room, t) ==
    LET server == DefaultServer(srv)
    IN  IF room = EmptyName \/ server = {} THEN Done(db)
        ELSE RoomUpserted(db, (CHOOSE s \in server : TRUE).pk, room, t)

\* The update without the status='active' filter
HandleRoomDestroyedAnyStatus(db, room, t) ==
    IF room = EmptyName THEN Done(db)
    ELSE Done([db EXCEPT !.conferences =
            { IF c.room_name = room
              THEN [c EXCEPT !.status = "ended", !.ended_at = At(t)]
              ELSE c : c \in @ }])

\* _handle_room_destroyed: filter(room_name, status='active').update(...)
HandleRoomDestroyed(db, room, t) ==
    IF room = EmptyName THEN Done(db)
    ELSE Done([db EXCEPT !.conferences =
            { IF c.room_name = room /\ c.status = "active"
              THEN [c EXCEPT !.status = "ended", !.ended_at = At(t)]
              ELSE c : c \in @ }])

\* _handle_participant_joined: filter(room_name, status='active').first()
JoinConference(confs, room) ==
    ConfFirst({ c \in confs : c.room_name = room /\ c.status = "active" })

\* _handle_participant_joined: Participant.objects.create(conference, ...),
\* which fails (IntegrityError) when the Conference row is gone
ParticipantCreated(db, confPk, pid) ==
    IF \E c \in db.conferences : c.pk = confPk
    THEN Done([db EXCEPT
                !.participants = @ \cup { NewParticipant(db.nextPartPk, confPk, pid) },
                !.nextPartPk = @ + 1])
    ELSE Raised(db)

\* _handle_participant_joined: the instance after the comparison of the count
\* of present participants with its max_participants
JoinCounted(c, current_count) ==
    IF current_count > c.max_participants
    THEN [c EXCEPT !.max_participants = current_count] ELSE c

\* _handle_participant_joined with nothing served between its statements
HandleParticipantJoined(db, room, pid, t) ==
    LET conference == JoinConference(db.conferences, room)
    IN  IF room = EmptyName \/ conference = {} THEN Done(db)
        ELSE
        LET c == CHOOSE c \in conference : TRUE
            created == ParticipantCreated(db, c.pk, pid)
            counted == JoinCounted(c, ActiveCount(created.db.participants, c.pk))
        IN  IF created.raised THEN created
            ELSE Done([created.db EXCEPT
                        !.conferences = IF counted # c
                                        THEN ConfSaved(@, counted, db.confInserts + 1)
                                        ELSE @])

\* _handle_participant_left: filter(conference__room_name, participant_id,
\* left_at__isnull=True).update(left_at)
HandleParticipantLeft(db, room, pid, t) ==
    IF room = EmptyName \/ pid = "" THEN Done(db)
    ELSE LET rooms == { c.pk : c \in { c \in db.conferences : c.room_name = room } }
         IN  Done([db EXCEPT !.participants =
                { IF p.conference \in rooms /\ p.participant_id = pid /\ p.left_at = NULL
                  THEN [p EXCEPT !.left_at = At(t)]
                  ELSE p : p \in @ }])

\* webhook_handler: json.loads(request.body) and the reads of 'eventType' and
\* of the room name succeed.  A 'room' entry that is not an object raises
\* (AttributeError) when 'roomName' is missing or empty.
BodyRead(p) == p.valid /\ ~(p.roomName = EmptyName /\ p.room = "text")

\* data.get('eventType', 'OTHER'): the default stands for a missing entry
\* only, an entry that is null is read as None ("null")
EventType(p) == IF p.eventType = "absent" THEN "OTHER" ELSE p.eventType

\* The room name read is None: 'roomName' is missing or empty and 'room' is
\* an object whose 'name' is null
RoomNameNone(p) == p.roomName = EmptyName /\ p.room = "null_name"

\* WebhookEvent.objects.create succeeds: event_type and room_name are
\* CharFields without null=True, and the INSERT of None into either fails
\* (IntegrityError)
EventStored(p) == EventType(p) # "null" /\ ~RoomNameNone(p)

\* WebhookEvent.objects.create(event_type, room_name, payload)
WebhookLogged(events, pk, p) ==
    events \cup { [pk |-> pk, event_type |-> EventType(p), room_name |-> p.roomName] }

\* webhook_handler reaches the dispatch on eventType: the body was read and
\* the event logged
EventLogged(p) == BodyRead(p) /\ EventStored(p)

\* The part of webhook_handler that writes Conference and Participant: the
\* dispatch on eventType.  A body that cannot be read and an event that
\* cannot be logged raise before any handler.
WebhookDispatch(db, srv, p, t) ==
    IF ~EventLogged(p) THEN Raised(db)
    ELSE IF p.eventType = "ROOM_CREATED" THEN HandleRoomCreated(db, srv, p.roomName, t)
    ELSE IF p.eventType = "ROOM_DESTROYED" THEN HandleRoomDestroyed(db, p.roomName, t)
    ELSE IF p.eventType = "PARTICIPANT_JOINED"
         THEN HandleParticipantJoined(db, p.roomName, p.participantId, t)
    ELSE IF p.eventType = "PARTICIPANT_LEFT"
         THEN HandleParticipantLeft(db, p.roomName, p.participantId, t)
    ELSE Done(db)

\* WebhookEvent.EVENT_TYPES
EventTypes == {"ROOM_CREATED", "ROOM_DESTROYED", "PARTICIPANT_JOINED",
               "PARTICIPANT_LEFT", "PARTICIPANT_JOINED_LOBBY", "PARTICIPANT_LEFT_LOBBY",
               "RECORDING_STARTED", "RECORDING_STOPPED", "OTHER"}

\* The event types webhook_handler has a handler for
HandledTypes == {"ROOM_CREATED", "ROOM_DESTROYED", "PARTICIPANT_JOINED", "PARTICIPANT_LEFT"}
ParticipantIds == {"", "p1"}

\* Webhook request bodies: JSON objects with the fields the handlers read (room
\* events carry no participant), one event of each type without handler, one
\* without event type, one whose event type is null, one whose 'room' is not
\* an object, one whose 'room' has a null name, and one body that is not
\* JSON.  roomName stands for the name the body gives in 'roomName' or in
\* 'room.name'; room tells whether the body has a 'room' entry that is not an
\* object ("text"), one that is an object whose 'name' is null ("null_name"),
\* or none ("absent"); eventType "absent" is a body without 'eventType' and
\* "null" one whose 'eventType' is null.
Payloads ==
    [valid : {TRUE}, eventType : {"ROOM_CREATED", "ROOM_DESTROYED"},
     roomName : RoomNames \cup {EmptyName}, participantId : {""}, room : {"absent"}]
    \cup
    [valid : {TRUE}, eventType : {"PARTICIPANT_JOINED", "PARTICIPANT_LEFT"},
     roomName : RoomNames \cup {EmptyName}, participantId : ParticipantIds,
     room : {"absent"}]
    \cup
    [valid : {TRUE}, eventType : EventTypes \ HandledTypes,
     roomName : { <<"a">> }, participantId : {""}, room : {"absent"}]
    \cup { [valid |-> TRUE, eventType |-> "absent", roomName |-> <<"a">>,
            participantId |-> "", room |-> "absent"],
           [valid |-> TRUE, eventType |-> "null", roomName |-> <<"a">>,
            participantId |-> "", room |-> "absent"],
           [valid |-> TRUE, eventType |-> "ROOM_CREATED", roomName |-> EmptyName,
            participantId |-> "", room |-> "text"],
           [valid |-> TRUE, eventType |-> "ROOM_CREATED", roomName |-> EmptyName,
            participantId |-> "", room |-> "null_name"],
           [valid |-> FALSE, eventType |-> "OTHER", roomName |-> EmptyName,
            participantId |-> "", room |-> "absent"] }

----------------------------------------------------------------------------
(* Requests and answers.  The views call RevokedRoom.revoke and
   RevokedRoom.is_revoked, a class the models do not define: a call of revoke
   is recorded with its argument, and what is_revoked returns is an input of
   the request, as the body and the method are. *)

\* The last request: the view, its method (for a webhook, its eventType), its
\* room argument, the answer's HTTP status and (for the access check) its
\* "allowed" field, and whether is_revoked returned True for the request
Answer(op, method, room, status, allowed) ==
    [op |-> op, method |-> method, room |-> room, status |-> status, allowed |-> allowed,
     revoked |-> FALSE]

\* The answer to a request for which is_revoked returned `is_revoked`
Judged(answer, is_revoked) == [answer EXCEPT !.revoked = is_revoked]

NoRequest == Answer("none", "", EmptyName, 0, FALSE)

\* api_check_room_access: the answer, is_revoked being what
\* RevokedRoom.is_revoked(room_name.lower()) returned
CheckRoomAccess(is_revoked, name) ==
    IF name = EmptyName THEN Answer("api_check_room_access", "GET", name, 400, FALSE)
    ELSE IF is_revoked
         THEN Judged(Answer("api_check_room_access", "GET", name, 200, FALSE), TRUE)
         ELSE Answer("api_check_room_access", "GET", name, 200, TRUE)

Methods == {"GET", "POST", "DELETE"}

\* The room name used as sent
ReservationRoomNameAsSent(name) == name

\* api_reservation: room_name = room_name.lower()
ReservationRoomName(name) == Lower(name)

\* The blocklist consulted when checking or creating a reservation only
ReservationRevokedUnlessDelete(is_revoked, method) == method # "DELETE" /\ is_revoked

\* api_reservation: `if RevokedRoom.is_revoked(room_name)`, for every method
ReservationRevoked(is_revoked, method) == is_revoked

\* api_reservation: Conference.objects.filter(room_name=room_name).first()
ReservationConference(confs, room_name) ==
    ConfFirst({ c \in confs : c.room_name = room_name })

\* api_reservation on POST: the instance with status and started_at assigned
ReservationStarted(c, t) == [c EXCEPT !.status = "active", !.started_at = At(t)]

\* api_reservation on DELETE: filter(room_name=room_name).update(status, ended_at)
ReservationEnded(confs, room_name, t) ==
    { IF c.room_name = room_name
      THEN [c EXCEPT !.status = "ended", !.ended_at = At(t)]
      ELSE c : c \in confs }

----------------------------------------------------------------------------
(* DashboardSettings *)

\* A row with the model's field defaults
DefaultSettings(pk) ==
    [pk |-> pk, refresh_interval_seconds |-> 5, default_jwt_expiry_hours |-> 24,
     dark_mode |-> TRUE, show_bandwidth_graphs |-> TRUE, enable_webhooks |-> TRUE,
     webhook_secret |-> ""]

\* save() without self.pk = 1: the instance keeps its pk
SettingsPkKept(inst) == inst

\* DashboardSettings.save(): self.pk = 1
SettingsPk(inst) == [inst EXCEPT !.pk = 1]

\* super().save(), first statement: the UPDATE of the row with the pk of the
\* instance
SettingsUpdated(rows, row) == { IF r.pk = row.pk THEN row ELSE r : r \in rows }

\* Whether that UPDATE matches a row
SettingsStored(rows, row) == \E r \in rows : r.pk = row.pk

\* super().save(), second statement, executed when the UPDATE matched no row:
\* the INSERT, which fails (IntegrityError) when a row has the pk by now
SettingsInserted(rows, row) ==
    IF SettingsStored(rows, row) THEN rows ELSE rows \cup { row }

\* Form values of the settings page: a missing field, numbers, and text
FormValues == {"absent", "10", "48", "x"}

\* int(request.POST.get(key, default)): <<n>>, or <<>> when int() raises
ParseInt(v, default) ==
    IF v = "absent" THEN <<default>>
    ELSE IF v = "10" THEN <<10>>
    ELSE IF v = "48" THEN <<48>>
    ELSE <<>>

\* Instances DashboardSettings.save() is called on: new ones (pk 0 stands for
\* None) and loaded ones
SettingsInstances ==
    [pk : 0..2, refresh_interval_seconds : {5, 10}, default_jwt_expiry_hours : {24},
     dark_mode : BOOLEAN, show_bandwidth_graphs : {TRUE}, enable_webhooks : BOOLEAN,
     webhook_secret : {""}]

----------------------------------------------------------------------------
(* JitsiAPI: JWT tokens and meeting URLs *)

\* The 3600 of expiry_hours * 3600 and the default of expiry_hours
SecondsPerHour == 3600
DefaultExpiryHours == 24

\* jwt.encode(payload, key, algorithm="HS256"): header, payload and the
\* signature of both under the key
JwtEncode(payload, key) ==
    [header |-> [alg |-> "HS256", typ |-> "JWT"],
     payload |-> payload,
     signature |-> <<"HS256", key, payload>>]

\* str.rstrip("/") of a URL given as a sequence of its parts
RECURSIVE RStripSlash(_)
RStripSlash(u) ==
    IF u # <<>> /\ u[Len(u)] = "/" THEN RStripSlash(SubSeq(u, 1, Len(u) - 1)) ELSE u

\* base_url.replace("https://", "").replace("http://", "").rstrip("/")
Subject(base_url) ==
    RStripSlash(SelectSeq(base_url, LAMBDA x : x \notin {"https://", "http://"}))

\* The token requested for every URL with use_jwt
UrlWantsTokenAlways(config, use_jwt) == use_jwt

\* generate_meeting_url: use_jwt and self.config.app_secret
UrlWantsToken(config, use_jwt) == use_jwt /\ config.app_secret # ""

\* generate_jwt_token called at instant t (time.time(), in seconds): the
\* ValueError, or the token
GenerateJwtToken(config, room_name, is_moderator, expiry_hours, t) ==
    IF config.app_secret = ""
    THEN [raised |-> TRUE, token |-> <<>>]
    ELSE [raised |-> FALSE,
          token |-> << JwtEncode(
                [context |-> [user |-> [moderator |-> is_moderator]],
                 room |-> room_name,
                 iss |-> config.app_id,
                 aud |-> "jitsi",
                 sub |-> Subject(config.base_url),
                 iat |-> t,
                 exp |-> t + expiry_hours * SecondsPerHour,
                 nbf |-> t],
                config.app_secret) >>]

\* generate_meeting_url called at instant t: an exception, or the URL as its
\* base, the cleaned room name and the list `params` joined after "?"
GenerateMeetingUrl(config, room_name, is_moderator, use_jwt, config_overrides, t) ==
    LET clean_room == CleanRoomName(room_name)
        got == IF UrlWantsToken(config, use_jwt)
               THEN GenerateJwtToken(config, clean_room, is_moderator,
                                     DefaultExpiryHours, t)
               ELSE [raised |-> FALSE, token |-> <<>>]
        jwt == IF got.token # <<>>
               THEN << [name |-> "jwt", value |-> got.token[1]] >> ELSE <<>>
        overrides == IF config_overrides # "none"
                     THEN << [name |-> "config", value |-> config_overrides] >> ELSE <<>>
    IN  IF got.raised THEN [raised |-> TRUE, url |-> <<>>]
        ELSE [raised |-> FALSE,
              url |-> << [base |-> config.base_url, room |-> clean_room,
                          params |-> jwt \o overrides] >>]

\* Clients: with and without a secret, with the forms of base_url
ApiConfigs ==
    [base_url : { <<"https://", "meet">>, <<"http://", "meet", "/">> },
     app_id : {"jitsi_dashboard"},
     app_secret : {"", "k"}]

\* Arguments of the calls
ApiCalls ==
    [config : ApiConfigs, room_name : RoomNames, is_moderator : BOOLEAN,
     use_jwt : BOOLEAN, expiry_hours : {1, DefaultExpiryHours},
     config_overrides : {"none", "startWithAudioMuted"}]

NoCall == [config |-> [base_url |-> <<>>, app_id |-> "", app_secret |-> ""],
           room_name |-> EmptyName, is_moderator |-> FALSE, use_jwt |-> FALSE,
           expiry_hours |-> 0, config_overrides |-> "none"]
NoResult == [op |-> "none", raised |-> FALSE, token |-> <<>>, url |-> <<>>]

----------------------------------------------------------------------------
(* Initial states *)

\* The state after migration: empty tables
InitEmpty ==
    /\ servers = {}
    /\ nextServerPk = 1
    /\ lastPrimary = 0
    /\ conferences = {}
    /\ nextConfPk = 1
    /\ confInserts = 0
    /\ participants = {}
    /\ nextPartPk = 1
    /\ revokeCalls = {}
    /\ settingsRows = {}
    /\ settingsObj = <<>>
    /\ now = 0
    /\ resp = NoRequest
    /\ webhookEvents = {}
    /\ nextEventPk = 1
    /\ pending = {}
    /\ jwtCall = NoCall
    /\ jwtResult = NoResult

\* Server names, in their sort order
ServerNames == 1..MaxServers

Server(pk, name, is_primary, is_active) ==
    [pk |-> pk, name |-> name, is_primary |-> is_primary, is_active |-> is_active]

\* Server tables of an installed dashboard, each the result of JitsiServer.save()
\* calls on the empty table: no server; one primary server; two active servers,
\* neither primary, the second one first by name
ServerConfigs ==
    { [servers |-> {}, nextServerPk |-> 1, lastPrimary |-> 0],
      [servers |-> ServerSaved({}, Server(1, 1, TRUE, TRUE)),
       nextServerPk |-> 2, lastPrimary |-> 1],
      [servers |-> ServerSaved(ServerSaved({}, Server(1, 2, FALSE, TRUE)),
                               Server(2, 1, FALSE, TRUE)),
       nextServerPk |-> 3, lastPrimary |-> 0] }

\* An installed dashboard before its first meeting
Init ==
    /\ \E cfg \in ServerConfigs :
          /\ servers = cfg.servers
          /\ nextServerPk = cfg.nextServerPk
          /\ lastPrimary = cfg.lastPrimary
    /\ conferences = {}
    /\ nextConfPk = 1
    /\ confInserts = 0
    /\ participants = {}
    /\ nextPartPk = 1
    /\ revokeCalls = {}
    /\ settingsRows = {}
    /\ settingsObj = <<>>
    /\ now = 0
    /\ resp = NoRequest
    /\ webhookEvents = {}
    /\ nextEventPk = 1
    /\ pending = {}
    /\ jwtCall = NoCall
    /\ jwtResult = NoResult

serverVars == <<servers, nextServerPk, lastPrimary>>
confCounters == <<nextConfPk, confInserts>>
confVars == <<conferences, confCounters, participants, nextPartPk>>
revokedVars == <<revokeCalls>>
settingsVars == <<settingsRows, settingsObj>>
eventVars == <<webhookEvents, nextEventPk>>
apiVars == <<jwtCall, jwtResult>>
flightVars == <<pending>>

----------------------------------------------------------------------------
(* Actions *)

\* A request or a save() call that has executed its first statements: which
\* request it is (two requests in flight are two requests, also when they
\* are the same view with the same arguments), what it is, the statement it
\* executes next, the instance it holds in memory and its arguments
Pending(id, op, stage, row, arg) ==
    [id |-> id, op |-> op, stage |-> stage, row |-> row, arg |-> arg]

\* No instance, no argument
NoRow == [pk |-> 0]
NoArg == [method |-> "", name |-> EmptyName]

\* No request is between two of its statements
Idle == pending = {}

\* The requests that can be served at a time, less those in flight
FreeIds == (1..MaxPending) \ { j.id : j \in pending }

\* A request executes its first statement and has more to execute
Begins(op, stage, row, arg) ==
    /\ FreeIds # {}
    /\ pending' = pending \cup
            { Pending(CHOOSE i \in FreeIds : \A k \in FreeIds : i <= k, op, stage, row, arg) }

\* The request j is about to execute the statement `stage` of `op`
Reached(j, op, stage) == j \in pending /\ j.op = op /\ j.stage = stage

\* The request j goes on to the statement `stage`, holding `row`
Goes(j, stage, row) ==
    pending' = (pending \ { j }) \cup { Pending(j.id, j.op, stage, row, j.arg) }

\* The request j goes on to the statement `stage`, holding `row`, with `arg`
\* for what is left of its arguments
GoesWith(j, stage, row, arg) ==
    pending' = (pending \ { j }) \cup { Pending(j.id, j.op, stage, row, arg) }

\* The request j has executed its last statement
Ends(j) == pending' = pending \ { j }

\* The requests in flight that are going to INSERT a Conference with a new
\* pk, and those going to INSERT a Participant
ConfAhead ==
    Cardinality({ j \in pending :
        \/ j.op = "create_meeting" /\ j.stage \in {"active", "conference"}
        \/ j.op = "webhook_handler" /\ j.stage = "create" })
PartAhead ==
    Cardinality({ j \in pending :
        \/ j.op = "create_meeting" /\ j.stage \in {"active", "conference", "participant"}
        \/ j.op = "webhook_handler" /\ j.stage = "participant"
        \/ j.op = "sync_conference_participants" /\ j.stage = "create" })

\* The request j and its answer: the HTTP status, 0 while it is being served
Reply(j, status) ==
    IF j.op = "api_reservation"
    THEN Judged(Answer(j.op, j.arg.method, j.arg.name, status, FALSE), j.arg.is_revoked)
    ELSE IF j.op = "webhook_handler"
    THEN Answer(j.op, j.arg.eventType, j.arg.roomName, status, FALSE)
    ELSE IF j.op = "delete_conference"
    THEN Answer(j.op, "GET", j.row.room_name, status, FALSE)
    ELSE IF j.op = "sync_conference_participants"
    THEN Answer(j.op, "GET", EmptyName, status, FALSE)
    ELSE IF j.op \in {"create_meeting", "edit_conference", "kick_participant_view",
                      "settings_view"}
    THEN Answer(j.op, "POST", EmptyName, status, FALSE)
    ELSE Answer(j.op, "", EmptyName, status, FALSE)

\* The Conference and Participant tables as they are
CurrentDB == DB(conferences, participants, nextConfPk, nextPartPk, confInserts)

\* What the statements on one group of tables leave alone
OtherThanServers == <<confVars, revokedVars, settingsVars, now, eventVars, apiVars>>
OtherThanConf == <<serverVars, revokedVars, settingsVars, now, eventVars, apiVars>>
OtherThanSettings == <<serverVars, confVars, revokedVars, now, eventVars, apiVars>>

\* super().save() of the JitsiServer instance `row`.  An INSERT gives the row
\* the next pk; a failed INSERT uses no pk.
JitsiServerSuperSave(row) ==
    LET r == IF row.pk = 0 THEN [row EXCEPT !.pk = nextServerPk] ELSE row
        written == ServerWritten(servers, r)
    IN  /\ servers' = ServerRowWritten(servers, r)
        /\ nextServerPk' = IF row.pk = 0 /\ written THEN nextServerPk + 1 ELSE nextServerPk
        /\ lastPrimary' = IF r.is_primary /\ written THEN r.pk ELSE lastPrimary

\* instance.save() up to its first statement.  With is_primary the other
\* primary rows are demoted and super().save() is still to come; without it
\* super().save() is the only statement.
JitsiServerSave(row) ==
    /\ IF row.is_primary
       THEN /\ Begins("server_save", "super_save", row, NoArg)
            /\ servers' = ServerDemoted(servers, row)
            /\ UNCHANGED <<nextServerPk, lastPrimary>>
       ELSE /\ JitsiServerSuperSave(row)
            /\ UNCHANGED pending
    /\ resp' = Answer("server_save", "", EmptyName, 0, FALSE)
    /\ UNCHANGED OtherThanServers

\* JitsiServer(...).save() of a new instance
JitsiServerCreate(name, is_primary, is_active) ==
    /\ nextServerPk + Cardinality({ j \in pending : j.op = "server_save" /\ j.row.pk = 0 })
            <= MaxServers
    /\ JitsiServerSave(Server(0, name, is_primary, is_active))

\* server.save() of a loaded instance with changed fields
JitsiServerUpdate(pk, name, is_primary, is_active) ==
    /\ \E s \in servers : s.pk = pk
    /\ JitsiServerSave(Server(pk, name, is_primary, is_active))

\* The rest of a save() with is_primary: super().save()
JitsiServerWrite(j) ==
    /\ Reached(j, "server_save", "super_save")
    /\ JitsiServerSuperSave(j.row)
    /\ Ends(j)
    /\ resp' = Answer("server_save", "", EmptyName, 0, FALSE)
    /\ UNCHANGED OtherThanServers

\* conference.save() of the instance `row` held by the request j, first
\* statement: the UPDATE of every field of the row with its pk.  When it
\* matches a row the request is answered with `status`; when the row is gone
\* the INSERT is still to come.
ConferenceSave(j, row, status) ==
    /\ conferences' = ConfUpdated(conferences, row)
    /\ IF ConfStored(conferences, row)
       THEN Ends(j) /\ resp' = Reply(j, status)
       ELSE Goes(j, "insert", row) /\ resp' = Reply(j, 0)

\* The answer of a view whose conference.save() went through, and of one
\* whose conference.save() raised
SavedStatus(op) ==
    IF op \in {"create_meeting", "api_reservation", "webhook_handler"} THEN 200 ELSE 302
RaisedStatus(op) ==
    IF op \in {"create_meeting", "edit_conference"} THEN 302
    ELSE IF op = "webhook_handler" THEN 400
    ELSE 500

\* conference.save(), second statement, of a request whose UPDATE matched no
\* row: the INSERT of the instance, which fails (IntegrityError) when a row
\* has its pk by now
ConferenceInsert(j) ==
    /\ j \in pending
    /\ j.stage = "insert"
    /\ j.op \in {"create_meeting", "edit_conference", "api_reservation", "webhook_handler",
                 "sync_conference_participants"}
    /\ IF ConfStored(conferences, j.row)
       THEN /\ UNCHANGED conferences
            /\ resp' = Reply(j, RaisedStatus(j.op))
       ELSE /\ conferences' = ConfInserted(conferences, j.row, confInserts + 1)
            /\ resp' = Reply(j, SavedStatus(j.op))
    /\ confInserts' = IF ConfStored(conferences, j.row) THEN confInserts ELSE confInserts + 1
    /\ Ends(j)
    /\ UNCHANGED <<nextConfPk, participants, nextPartPk, OtherThanConf>>

\* create_meeting on POST, up to its first read of JitsiServer: the name is
\* stripped and an empty one refused; the server is JitsiServer.objects.get(pk)
\* when the form names one (server_id 0 stands for none), which raises when
\* there is none, and filter(is_primary=True).first() otherwise.  The request
\* holds the Conference it is going to create, its server 0 until one is found.
CreateMeeting(room_name, server_id) ==
    LET name == Strip(room_name)
        server == IF server_id # 0 THEN { s \in servers : s.pk = server_id }
                  ELSE PrimaryServer(servers)
        conference == NewConference(CleanRoomName(name), 0, "scheduled", NULL, "dashboard")
    IN  /\ IF name = EmptyName \/ (server_id # 0 /\ server = {})
           THEN /\ resp' = Answer("create_meeting", "POST", EmptyName, 302, FALSE)
                /\ UNCHANGED pending
           ELSE /\ nextConfPk + ConfAhead <= MaxConf
                /\ nextPartPk + PartAhead <= MaxPart
                /\ IF server # {}
                   THEN Begins("create_meeting", "conference",
                               [conference EXCEPT !.server = (CHOOSE s \in server : TRUE).pk],
                               NoArg)
                   ELSE Begins("create_meeting", "active", conference, NoArg)
                /\ resp' = Answer("create_meeting", "POST", EmptyName, 0, FALSE)
        /\ UNCHANGED <<confVars, OtherThanConf>>

\* create_meeting without a server named and without a primary one:
\* filter(is_active=True).first().  Without a server the request is answered
\* by a redirect.
CreateMeetingActiveServer(j) ==
    LET server == ActiveServer(servers)
    IN  /\ Reached(j, "create_meeting", "active")
        /\ IF server = {}
           THEN Ends(j) /\ resp' = Reply(j, 302)
           ELSE /\ Goes(j, "conference", [j.row EXCEPT !.server = (CHOOSE s \in server : TRUE).pk])
                /\ resp' = Reply(j, 0)
        /\ UNCHANGED <<confVars, OtherThanConf>>

\* create_meeting, Conference.objects.create: the row is inserted with the
\* server read before and the field defaults
CreateMeetingConference(j) ==
    LET conference == ConfCreated(j.row, nextConfPk, confInserts + 1)
    IN  /\ Reached(j, "create_meeting", "conference")
        /\ nextConfPk <= MaxConf
        /\ conferences' = conferences \cup { conference }
        /\ nextConfPk' = nextConfPk + 1
        /\ confInserts' = confInserts + 1
        /\ Goes(j, "participant", conference)
        /\ resp' = Reply(j, 0)
        /\ UNCHANGED <<participants, nextPartPk, OtherThanConf>>

\* create_meeting, Participant.objects.create for the creator.  When the
\* Conference row is gone, the INSERT fails (IntegrityError) and the request
\* is answered by a redirect.
CreateMeetingParticipant(j) ==
    /\ Reached(j, "create_meeting", "participant")
    /\ IF ConfStored(conferences, j.row)
       THEN /\ nextPartPk <= MaxPart
            /\ participants' = participants \cup { NewParticipant(nextPartPk, j.row.pk, "") }
            /\ nextPartPk' = nextPartPk + 1
            /\ Goes(j, "save", j.row)
            /\ resp' = Reply(j, 0)
       ELSE /\ Ends(j)
            /\ resp' = Reply(j, 302)
            /\ UNCHANGED <<participants, nextPartPk>>
    /\ UNCHANGED <<conferences, confCounters, OtherThanConf>>

\* create_meeting, conference.save(): every field of the instance created
\* before is written, with max_participants = 1
CreateMeetingSave(j) ==
    /\ Reached(j, "create_meeting", "save")
    /\ ConferenceSave(j, [j.row EXCEPT !.max_participants = 1], 200)
    /\ UNCHANGED <<confCounters, participants, nextPartPk, OtherThanConf>>

\* edit_conference on POST: the instance with the form's name and status
\* assigned
ConferenceEdited(c, room_name, status) ==
    [c EXCEPT !.room_name = CleanRoomName(Strip(room_name)), !.status = status]

\* edit_conference, get_object_or_404: the instance is loaded
EditConference(pk) ==
    /\ \E c \in conferences : c.pk = pk
    /\ Begins("edit_conference", "form", CHOOSE c \in conferences : c.pk = pk, NoArg)
    /\ resp' = Answer("edit_conference", "POST", EmptyName, 0, FALSE)
    /\ UNCHANGED <<confVars, OtherThanConf>>

\* edit_conference on POST with a room name and a server:
\* JitsiServer.objects.get(pk=server_id), which raises when there is none
\* (the request is answered by a redirect), and conference.server = server
EditConferenceServer(j, server_id) ==
    /\ Reached(j, "edit_conference", "form")
    /\ IF \E s \in servers : s.pk = server_id
       THEN Goes(j, "save", [j.row EXCEPT !.server = server_id]) /\ resp' = Reply(j, 0)
       ELSE Ends(j) /\ resp' = Reply(j, 302)
    /\ UNCHANGED <<confVars, OtherThanConf>>

\* edit_conference on POST, after the load and the read of the server if the
\* form names one: an empty name is refused before any read; otherwise
\* conference.save() writes every field of the loaded instance.  Each case is
\* answered by a redirect.
EditConferenceSave(j, room_name, status) ==
    /\ j \in pending
    /\ j.op = "edit_conference"
    /\ \/ j.stage = "form"
       \/ j.stage = "save" /\ Strip(room_name) # EmptyName
    /\ IF Strip(room_name) = EmptyName
       THEN /\ Ends(j)
            /\ resp' = Reply(j, 302)
            /\ UNCHANGED conferences
       ELSE ConferenceSave(j, ConferenceEdited(j.row, room_name, status), 302)
    /\ UNCHANGED <<confCounters, participants, nextPartPk, OtherThanConf>>

\* The rows a save() inserted again after they were deleted
Reinserts == confInserts - (nextConfPk - 1)

\* delete_conference, get_object_or_404: the instance is loaded
DeleteConference(pk) ==
    /\ \E c \in conferences : c.pk = pk
    /\ Reinserts < MaxReinserts
    /\ Begins("delete_conference", "revoke", CHOOSE c \in conferences : c.pk = pk, NoArg)
    /\ resp' = Answer("delete_conference", "GET",
                      (CHOOSE c \in conferences : c.pk = pk).room_name, 0, FALSE)
    /\ UNCHANGED <<confVars, OtherThanConf>>

\* delete_conference, RevokedRoom.revoke(room_name, reason='deleted') with
\* the name of the instance loaded, as it is stored
DeleteConferenceRevoke(j) ==
    /\ Reached(j, "delete_conference", "revoke")
    /\ revokeCalls' = revokeCalls \cup { j.row.room_name }
    /\ Goes(j, "delete", j.row)
    /\ resp' = Reply(j, 0)
    /\ UNCHANGED <<serverVars, confVars, settingsVars, now, eventVars, apiVars>>

\* delete_conference, conference.delete(): in one transaction the row with
\* the pk of the instance is deleted and, by cascade, its participants
DeleteConferenceDelete(j) ==
    /\ Reached(j, "delete_conference", "delete")
    /\ conferences' = { c \in conferences : c.pk # j.row.pk }
    /\ participants' = { p \in participants : p.conference # j.row.pk }
    /\ Ends(j)
    /\ resp' = Reply(j, 302)
    /\ UNCHANGED <<confCounters, nextPartPk, OtherThanConf>>

\* api_check_room_access: RevokedRoom.is_revoked is its one statement
ApiCheckRoomAccess(name, is_revoked) ==
    /\ resp' = CheckRoomAccess(is_revoked, name)
    /\ UNCHANGED <<serverVars, confVars, revokedVars, settingsVars, now, eventVars,
                   flightVars, apiVars>>

\* api_reservation up to RevokedRoom.is_revoked(room_name), which returns
\* is_revoked: a request without a name is answered 400 before the call, one
\* for a revoked room 404
ApiReservation(method, name, is_revoked) ==
    /\ IF name = EmptyName
       THEN /\ resp' = Answer("api_reservation", method, name, 400, FALSE)
            /\ UNCHANGED pending
       ELSE IF ReservationRevoked(is_revoked, method)
       THEN /\ resp' = Judged(Answer("api_reservation", method, name, 404, FALSE),
                              is_revoked)
            /\ UNCHANGED pending
       ELSE /\ Begins("api_reservation", IF method = "DELETE" THEN "update" ELSE "read",
                      NoRow, [method |-> method, name |-> name, is_revoked |-> is_revoked])
            /\ resp' = Judged(Answer("api_reservation", method, name, 0, FALSE),
                              is_revoked)
    /\ UNCHANGED <<confVars, OtherThanConf>>

\* api_reservation on GET and POST: filter(room_name).first().  Without a
\* row the answer is 404; with one, GET is answered 200 and POST holds the
\* instance for conference.save().
ApiReservationRead(j) ==
    LET conference == ReservationConference(conferences, ReservationRoomName(j.arg.name))
    IN  /\ Reached(j, "api_reservation", "read")
        /\ IF conference = {}
           THEN Ends(j) /\ resp' = Reply(j, 404)
           ELSE IF j.arg.method = "GET"
           THEN Ends(j) /\ resp' = Reply(j, 200)
           ELSE Goes(j, "save", CHOOSE c \in conference : TRUE) /\ resp' = Reply(j, 0)
        /\ UNCHANGED <<confVars, OtherThanConf>>

\* api_reservation on POST: status and started_at are assigned and
\* conference.save() writes every field of the instance read before
ApiReservationSave(j) ==
    /\ Reached(j, "api_reservation", "save")
    /\ ConferenceSave(j, ReservationStarted(j.row, now), 200)
    /\ UNCHANGED <<confCounters, participants, nextPartPk, OtherThanConf>>

\* api_reservation on DELETE: filter(room_name).update(status, ended_at)
ApiReservationUpdate(j) ==
    /\ Reached(j, "api_reservation", "update")
    /\ conferences' = ReservationEnded(conferences, ReservationRoomName(j.arg.name), now)
    /\ Ends(j)
    /\ resp' = Reply(j, 200)
    /\ UNCHANGED <<confCounters, participants, nextPartPk, OtherThanConf>>

\* webhook_handler: the first statement of the handler of the event, "none"
\* when the handler returns before its first statement or there is no handler
HandlerStage(p) ==
    IF p.eventType = "ROOM_CREATED" /\ p.roomName # EmptyName THEN "primary"
    ELSE IF p.eventType = "ROOM_DESTROYED" /\ p.roomName # EmptyName THEN "destroyed"
    ELSE IF p.eventType = "PARTICIPANT_JOINED" /\ p.roomName # EmptyName THEN "conference"
    ELSE IF p.eventType = "PARTICIPANT_LEFT" /\ p.roomName # EmptyName
                                              /\ p.participantId # ""
    THEN "left"
    ELSE "none"

\* webhook_handler up to WebhookEvent.objects.create: the body is read (a
\* body that cannot be read is answered 400) and the event is logged (an
\* INSERT that fails is answered 400 and leaves no row).  The statements of
\* the handler of its type follow.
WebhookHandler(p) ==
    LET r == WebhookDispatch(CurrentDB, servers, p, now)
    IN  /\ r.db.nextConfPk <= MaxConf + 1
        /\ r.db.nextPartPk <= MaxPart + 1
        /\ IF ~EventLogged(p)
           THEN /\ resp' = Answer("webhook_handler", p.eventType, p.roomName, 400, FALSE)
                /\ UNCHANGED <<eventVars, pending>>
           ELSE /\ nextEventPk <= MaxEvents
                /\ webhookEvents' = WebhookLogged(webhookEvents, nextEventPk, p)
                /\ nextEventPk' = nextEventPk + 1
                /\ IF HandlerStage(p) = "none"
                   THEN /\ resp' = Answer("webhook_handler", p.eventType, p.roomName,
                                          200, FALSE)
                        /\ UNCHANGED pending
                   ELSE /\ Begins("webhook_handler", HandlerStage(p), NoRow, p)
                        /\ resp' = Answer("webhook_handler", p.eventType, p.roomName,
                                          0, FALSE)
        /\ UNCHANGED <<serverVars, confVars, revokedVars, settingsVars, now, apiVars>>

\* _handle_room_created: filter(is_primary=True).first()
WebhookRoomCreatedPrimary(j) ==
    LET server == PrimaryServer(servers)
    IN  /\ Reached(j, "webhook_handler", "primary")
        /\ IF server = {}
           THEN Goes(j, "active", NoRow)
           ELSE Goes(j, "upsert", [pk |-> (CHOOSE s \in server : TRUE).pk])
        /\ resp' = Reply(j, 0)
        /\ UNCHANGED <<confVars, eventVars, serverVars, revokedVars, settingsVars, now, apiVars>>

\* _handle_room_created without a primary server: filter(is_active=True).first().
\* Without a server the handler returns.
WebhookRoomCreatedActive(j) ==
    LET server == ActiveServer(servers)
    IN  /\ Reached(j, "webhook_handler", "active")
        /\ IF server = {}
           THEN Ends(j) /\ resp' = Reply(j, 200)
           ELSE /\ Goes(j, "upsert", [pk |-> (CHOOSE s \in server : TRUE).pk])
                /\ resp' = Reply(j, 0)
        /\ UNCHANGED <<confVars, eventVars, serverVars, revokedVars, settingsVars, now, apiVars>>

\* _handle_room_created, update_or_create for the server read before, up to
\* its SELECT ... FOR UPDATE.  Several rows raise (MultipleObjectsReturned)
\* and the request is answered 400; one row is locked, gets the defaults and is
\* saved before the transaction ends; without a row the INSERT is still to
\* come, of an instance with the defaults, whose started_at is the instant of
\* the call.
WebhookRoomCreatedUpsert(j) ==
    LET match == RoomMatch(conferences, j.row.pk, j.arg.roomName)
    IN  /\ Reached(j, "webhook_handler", "upsert")
        /\ IF Cardinality(match) > 1
           THEN /\ Ends(j) /\ resp' = Reply(j, 400)
                /\ UNCHANGED conferences
           ELSE IF match # {}
           THEN /\ conferences' = RoomStarted(conferences, CHOOSE c \in match : TRUE, now)
                /\ Ends(j) /\ resp' = Reply(j, 200)
           ELSE /\ nextConfPk + ConfAhead <= MaxConf
                /\ Goes(j, "create", RoomToCreate(j.row.pk, j.arg.roomName, now))
                /\ resp' = Reply(j, 0)
                /\ UNCHANGED conferences
        /\ UNCHANGED <<confCounters, participants, nextPartPk, OtherThanConf>>

\* _handle_room_created, update_or_create after a SELECT that found no row:
\* the INSERT of the instance
WebhookRoomCreatedCreate(j) ==
    /\ Reached(j, "webhook_handler", "create")
    /\ nextConfPk <= MaxConf
    /\ conferences' = conferences \cup { ConfCreated(j.row, nextConfPk, confInserts + 1) }
    /\ nextConfPk' = nextConfPk + 1
    /\ confInserts' = confInserts + 1
    /\ Ends(j)
    /\ resp' = Reply(j, 200)
    /\ UNCHANGED <<participants, nextPartPk, OtherThanConf>>

\* _handle_room_destroyed: its one statement
WebhookRoomDestroyed(j) ==
    /\ Reached(j, "webhook_handler", "destroyed")
    /\ conferences' = HandleRoomDestroyed(CurrentDB, j.arg.roomName, now).db.conferences
    /\ Ends(j)
    /\ resp' = Reply(j, 200)
    /\ UNCHANGED <<confCounters, participants, nextPartPk, OtherThanConf>>

\* _handle_participant_joined: the read of the active conference of the
\* room.  Without one the handler returns.
WebhookJoinConference(j) ==
    LET conference == JoinConference(conferences, j.arg.roomName)
    IN  /\ Reached(j, "webhook_handler", "conference")
        /\ IF conference = {}
           THEN Ends(j) /\ resp' = Reply(j, 200)
           ELSE /\ nextPartPk + PartAhead <= MaxPart
                /\ Goes(j, "participant", CHOOSE c \in conference : TRUE)
                /\ resp' = Reply(j, 0)
        /\ UNCHANGED <<confVars, eventVars, serverVars, revokedVars, settingsVars, now, apiVars>>

\* _handle_participant_joined: Participant.objects.create for the conference
\* read before; when it raises the request is answered 400
WebhookJoinParticipant(j) ==
    LET r == ParticipantCreated(CurrentDB, j.row.pk, j.arg.participantId)
    IN  /\ Reached(j, "webhook_handler", "participant")
        /\ r.db.nextPartPk <= MaxPart + 1
        /\ participants' = r.db.participants
        /\ nextPartPk' = r.db.nextPartPk
        /\ IF r.raised
           THEN Ends(j) /\ resp' = Reply(j, 400)
           ELSE Goes(j, "count", j.row) /\ resp' = Reply(j, 0)
        /\ UNCHANGED <<conferences, confCounters, OtherThanConf>>

\* _handle_participant_joined: the count of the present participants.  When
\* it does not exceed max_participants of the instance read before, the
\* handler returns; otherwise the instance gets the count.
WebhookJoinCount(j) ==
    LET counted == JoinCounted(j.row, ActiveCount(participants, j.row.pk))
    IN  /\ Reached(j, "webhook_handler", "count")
        /\ IF counted = j.row
           THEN Ends(j) /\ resp' = Reply(j, 200)
           ELSE Goes(j, "save", counted) /\ resp' = Reply(j, 0)
        /\ UNCHANGED <<confVars, eventVars, serverVars, revokedVars, settingsVars, now, apiVars>>

\* _handle_participant_joined: conference.save() writes every field of the
\* instance read before
WebhookJoinSave(j) ==
    /\ Reached(j, "webhook_handler", "save")
    /\ ConferenceSave(j, j.row, 200)
    /\ UNCHANGED <<confCounters, participants, nextPartPk, OtherThanConf>>

\* _handle_participant_left: its one statement
WebhookParticipantLeft(j) ==
    /\ Reached(j, "webhook_handler", "left")
    /\ participants' = HandleParticipantLeft(CurrentDB, j.arg.roomName,
                                             j.arg.participantId, now).db.participants
    /\ Ends(j)
    /\ resp' = Reply(j, 200)
    /\ UNCHANGED <<conferences, confCounters, nextPartPk, OtherThanConf>>

\* The secret a webhook request carries: none, the configured one, another one
Secrets == {"", "s3cret", "wrong"}

\* A POST to webhook_handler that carries `secret`: the view reads neither the
\* request's headers nor DashboardSettings
WebhookRequest(p, secret) == WebhookHandler(p)

\* instance.save() up to the UPDATE: self.pk = 1, and the row with that pk is
\* written.  When there is none, the INSERT is still to come.
DashboardSettingsSave(inst) ==
    LET row == SettingsPk(inst)
    IN  /\ settingsRows' = SettingsUpdated(settingsRows, row)
        /\ IF SettingsStored(settingsRows, row)
           THEN UNCHANGED pending
           ELSE Begins("settings_save", "insert", row, NoArg)
        /\ resp' = Answer("settings_save", "", EmptyName, 0, FALSE)
        /\ UNCHANGED <<settingsObj, OtherThanSettings>>

\* The rest of a save() whose UPDATE matched no row: the INSERT.  When it
\* fails the exception is the outcome of the call (status 500).
DashboardSettingsInsert(j) ==
    /\ j \in pending
    /\ j.op \in {"settings_save", "settings_view"}
    /\ j.stage = "insert"
    /\ settingsRows' = SettingsInserted(settingsRows, j.row)
    /\ Ends(j)
    /\ resp' = Reply(j, IF SettingsStored(settingsRows, j.row) THEN 500
                        ELSE IF j.op = "settings_view" THEN 302 ELSE 0)
    /\ UNCHANGED <<settingsObj, OtherThanSettings>>

\* get_or_create(pk=1) has its row: get_settings() returns it, settings_view
\* holds it for the form's values
SettingsGot(j, row) ==
    IF j.op = "get_settings"
    THEN Ends(j) /\ settingsObj' = <<row>>
    ELSE Goes(j, "save", row) /\ UNCHANGED settingsObj

\* DashboardSettings.get_settings() up to the get of get_or_create(pk=1).
\* Without the row the create is still to come.
DashboardGetSettings ==
    LET found == { r \in settingsRows : r.pk = 1 }
    IN  /\ IF found # {}
           THEN settingsObj' = <<CHOOSE r \in found : TRUE>> /\ UNCHANGED pending
           ELSE Begins("get_settings", "create", NoRow, NoArg) /\ UNCHANGED settingsObj
        /\ resp' = Answer("get_settings", "", EmptyName, 0, FALSE)
        /\ UNCHANGED <<settingsRows, OtherThanSettings>>

\* get_or_create(pk=1) after a get that found no row: the INSERT of a row
\* with the field defaults, through save().  When a row has the pk by now
\* (IntegrityError), the get is made again.
GetSettingsCreate(j) ==
    LET row == SettingsPk(DefaultSettings(1))
    IN  /\ j \in pending
        /\ j.op \in {"get_settings", "settings_view"}
        /\ j.stage = "create"
        /\ settingsRows' = SettingsInserted(settingsRows, row)
        /\ IF SettingsStored(settingsRows, row)
           THEN Goes(j, "get", NoRow) /\ UNCHANGED settingsObj
           ELSE SettingsGot(j, row)
        /\ resp' = Reply(j, 0)
        /\ UNCHANGED OtherThanSettings

\* get_or_create(pk=1) after a create that failed: the get of the row
GetSettingsAgain(j) ==
    /\ j \in pending
    /\ j.op \in {"get_settings", "settings_view"}
    /\ j.stage = "get"
    /\ \E r \in settingsRows : r.pk = 1 /\ SettingsGot(j, r)
    /\ resp' = Reply(j, 0)
    /\ UNCHANGED <<settingsRows, OtherThanSettings>>

\* settings_view on POST up to the get of get_settings()
SettingsView ==
    LET found == { r \in settingsRows : r.pk = 1 }
    IN  /\ IF found # {}
           THEN Begins("settings_view", "save", CHOOSE r \in found : TRUE, NoArg)
           ELSE Begins("settings_view", "create", NoRow, NoArg)
        /\ resp' = Answer("settings_view", "POST", EmptyName, 0, FALSE)
        /\ UNCHANGED <<settingsVars, OtherThanSettings>>

\* settings_view on POST after get_settings(): the form's numbers are parsed
\* (int() raises on text, a server error), the fields are assigned and
\* settings.save() writes every field of the instance
SettingsViewSave(j, refresh_interval, jwt_expiry, dark_mode, show_graphs) ==
    LET r == ParseInt(refresh_interval, 5)
        e == ParseInt(jwt_expiry, 24)
        row == SettingsPk([j.row EXCEPT !.refresh_interval_seconds = r[1],
                                        !.default_jwt_expiry_hours = e[1],
                                        !.dark_mode = dark_mode,
                                        !.show_bandwidth_graphs = show_graphs])
    IN  /\ Reached(j, "settings_view", "save")
        /\ IF r = <<>> \/ e = <<>>
           THEN /\ Ends(j)
                /\ resp' = Reply(j, 500)
                /\ UNCHANGED settingsRows
           ELSE /\ settingsRows' = SettingsUpdated(settingsRows, row)
                /\ IF SettingsStored(settingsRows, row)
                   THEN Ends(j) /\ resp' = Reply(j, 302)
                   ELSE Goes(j, "insert", row) /\ resp' = Reply(j, 0)
        /\ UNCHANGED <<settingsObj, OtherThanSettings>>

\* Time passes
Tick ==
    /\ now < MaxClock
    /\ now' = now + 1
    /\ UNCHANGED <<serverVars, confVars, revokedVars, settingsVars, resp, eventVars,
                   flightVars, apiVars>>

\* get_room_occupants(room_name): the occupants the Jitsi server reports, each
\* given by the participant id the view derives from it (jid or nick)
OccupantLists == { <<>>, <<"p1">>, <<"p1", "p2">> }

\* Whether the call to the Jitsi server succeeded
CallResults == BOOLEAN

\* The elements of a sequence
Range(f) == { f[i] : i \in DOMAIN f }

Max(a, b) == IF a >= b THEN a ELSE b

\* sync_conference_participants up to the call of get_room_occupants: the
\* conference is loaded and the Jitsi server asked.  Without success the
\* request is answered by a redirect.
SyncConferenceParticipants(pk, success, occupants) ==
    /\ \E c \in conferences : c.pk = pk
    /\ IF success
       THEN /\ Begins("sync_conference_participants",
                      IF occupants = <<>> THEN "left" ELSE "occupant",
                      CHOOSE c \in conferences : c.pk = pk,
                      [occupants |-> occupants, rest |-> occupants])
            /\ resp' = Answer("sync_conference_participants", "GET", EmptyName, 0, FALSE)
       ELSE /\ resp' = Answer("sync_conference_participants", "GET", EmptyName, 302, FALSE)
            /\ UNCHANGED pending
    /\ UNCHANGED <<confVars, OtherThanConf>>

\* The request j of sync_conference_participants is done with the occupant
\* at the head of its list: the next one follows, or the UPDATE of those who
\* left
SyncNext(j) ==
    LET rest == Tail(j.arg.rest)
    IN  GoesWith(j, IF rest = <<>> THEN "left" ELSE "occupant", j.row,
                 [j.arg EXCEPT !.rest = rest])

\* sync_conference_participants, one turn of the loop:
\* Participant.objects.update_or_create(conference, participant_id, defaults)
\* for the next occupant, up to its SELECT ... FOR UPDATE.  Several matching
\* rows (MultipleObjectsReturned) end the request with a server error; one
\* row is locked, marked present and saved before the transaction ends;
\* without a row the INSERT is still to come.
SyncOccupant(j) ==
    LET pid == Head(j.arg.rest)
        match == { p \in participants : p.conference = j.row.pk /\ p.participant_id = pid }
    IN  /\ Reached(j, "sync_conference_participants", "occupant")
        /\ IF Cardinality(match) > 1
           THEN /\ Ends(j) /\ resp' = Reply(j, 500)
                /\ UNCHANGED participants
           ELSE IF match # {}
           THEN /\ participants' =
                        { IF p \in match THEN [p EXCEPT !.left_at = NULL] ELSE p :
                            p \in participants }
                /\ SyncNext(j) /\ resp' = Reply(j, 0)
           ELSE /\ nextPartPk + PartAhead <= MaxPart
                /\ GoesWith(j, "create", j.row, j.arg) /\ resp' = Reply(j, 0)
                /\ UNCHANGED participants
        /\ UNCHANGED <<conferences, confCounters, nextPartPk, OtherThanConf>>

\* sync_conference_participants, update_or_create after a SELECT that found
\* no row: the INSERT of the participant, which fails (IntegrityError) when
\* the Conference row is gone; the request ends with a server error
SyncOccupantCreate(j) ==
    LET r == ParticipantCreated(CurrentDB, j.row.pk, Head(j.arg.rest))
    IN  /\ Reached(j, "sync_conference_participants", "create")
        /\ r.db.nextPartPk <= MaxPart + 1
        /\ participants' = r.db.participants
        /\ nextPartPk' = r.db.nextPartPk
        /\ IF r.raised
           THEN Ends(j) /\ resp' = Reply(j, 500)
           ELSE SyncNext(j) /\ resp' = Reply(j, 0)
        /\ UNCHANGED <<conferences, confCounters, OtherThanConf>>

\* sync_conference_participants, the UPDATE that marks as left the present
\* participants of the conference that are not among the occupants
SyncLeft(j) ==
    /\ Reached(j, "sync_conference_participants", "left")
    /\ participants' =
            { IF /\ p.conference = j.row.pk /\ p.left_at = NULL
                 /\ p.participant_id \notin Range(j.arg.occupants)
              THEN [p EXCEPT !.left_at = At(now)] ELSE p : p \in participants }
    /\ Goes(j, "save", j.row)
    /\ resp' = Reply(j, 0)
    /\ UNCHANGED <<conferences, confCounters, nextPartPk, OtherThanConf>>

\* sync_conference_participants, the statistics and conference.save(): every
\* field of the instance loaded at the beginning is written, with
\* max_participants raised to the number of occupants and, when there is an
\* occupant, the status active and started_at set if it was not
SyncSave(j) ==
    LET c == j.row
        num_active == Len(j.arg.occupants)
        starts == num_active > 0 /\ c.status # "active"
    IN  /\ Reached(j, "sync_conference_participants", "save")
        /\ ConferenceSave(j, [c EXCEPT !.max_participants = Max(@, num_active),
                                       !.status = IF starts THEN "active" ELSE @,
                                       !.started_at = IF starts /\ @ = NULL
                                                      THEN At(now) ELSE @],
                          302)
        /\ UNCHANGED <<confCounters, participants, nextPartPk, OtherThanConf>>

\* kick_participant_view on POST, get_object_or_404(Conference,
\* pk=conference_pk): the conference is loaded
KickParticipantView(conference_pk, participant_pk) ==
    /\ \E c \in conferences : c.pk = conference_pk
    /\ Begins("kick_participant_view", "participant",
              CHOOSE c \in conferences : c.pk = conference_pk,
              [participant_pk |-> participant_pk])
    /\ resp' = Answer("kick_participant_view", "POST", EmptyName, 0, FALSE)
    /\ UNCHANGED <<confVars, OtherThanConf>>

\* kick_participant_view, get_object_or_404(Participant, pk=participant_pk,
\* conference=conference), answered 404 without such a row, and the call of
\* kick_participant on the Jitsi server.  Without success the request is
\* answered by a redirect; with it the participant loaded is still to be
\* saved.
KickParticipantRead(j, success) ==
    LET participant == { p \in participants : p.pk = j.arg.participant_pk
                                              /\ p.conference = j.row.pk }
    IN  /\ Reached(j, "kick_participant_view", "participant")
        /\ IF participant = {}
           THEN Ends(j) /\ resp' = Reply(j, 404)
           ELSE IF success
           THEN Goes(j, "save", CHOOSE p \in participant : TRUE) /\ resp' = Reply(j, 0)
           ELSE Ends(j) /\ resp' = Reply(j, 302)
        /\ UNCHANGED <<confVars, OtherThanConf>>

\* kick_participant_view, participant.save(), first statement: the UPDATE of
\* every field of the row of the loaded instance, with left_at = now.  When
\* the row is gone the INSERT is still to come.
KickParticipantSave(j) ==
    LET row == [j.row EXCEPT !.left_at = At(now)]
    IN  /\ Reached(j, "kick_participant_view", "save")
        /\ participants' = { IF p.pk = row.pk THEN row ELSE p : p \in participants }
        /\ IF \E p \in participants : p.pk = row.pk
           THEN Ends(j) /\ resp' = Reply(j, 302)
           ELSE Goes(j, "insert", row) /\ resp' = Reply(j, 0)
        /\ UNCHANGED <<conferences, confCounters, nextPartPk, OtherThanConf>>

\* kick_participant_view, participant.save(), second statement: the INSERT
\* of the instance, which fails (IntegrityError) when its conference is gone
\* or a row has its pk by now; the request ends with a server error
KickParticipantInsert(j) ==
    LET raises == \/ ~ \E c \in conferences : c.pk = j.row.conference
                  \/ \E p \in participants : p.pk = j.row.pk
    IN  /\ Reached(j, "kick_participant_view", "insert")
        /\ participants' = IF raises THEN participants ELSE participants \cup { j.row }
        /\ Ends(j)
        /\ resp' = Reply(j, IF raises THEN 500 ELSE 302)
        /\ UNCHANGED <<conferences, confCounters, nextPartPk, OtherThanConf>>

----------------------------------------------------------------------------
(* The dashboard (meetings created, edited and deleted), the reservation
   endpoint and the access check, the requests served one after the other: a
   request begins when no other is between two of its statements.  The
   webhooks are served beside the reservation endpoint in SpecRooms. *)

Next ==
    \/ \E n \in FormNames, sid \in 0..MaxServers : Idle /\ CreateMeeting(n, sid)
    \/ \E j \in pending : CreateMeetingActiveServer(j)
    \/ \E j \in pending : CreateMeetingConference(j)
    \/ \E j \in pending : CreateMeetingParticipant(j)
    \/ \E j \in pending : CreateMeetingSave(j)
    \/ \E pk \in 1..MaxConf : Idle /\ EditConference(pk)
    \/ \E j \in pending, sid \in 1..MaxServers : EditConferenceServer(j, sid)
    \/ \E j \in pending, n \in FormNames, st \in Statuses : EditConferenceSave(j, n, st)
    \/ \E pk \in 1..MaxConf : Idle /\ DeleteConference(pk)
    \/ \E j \in pending : DeleteConferenceRevoke(j)
    \/ \E j \in pending : DeleteConferenceDelete(j)
    \/ \E n \in RoomNames \cup {EmptyName}, rv \in BOOLEAN : Idle /\ ApiCheckRoomAccess(n, rv)
    \/ \E m \in Methods, n \in RoomNames \cup {EmptyName}, rv \in BOOLEAN :
            Idle /\ ApiReservation(m, n, rv)
    \/ \E j \in pending : ApiReservationRead(j)
    \/ \E j \in pending : ApiReservationSave(j)
    \/ \E j \in pending : ApiReservationUpdate(j)

Spec == Init /\ [][Next]_vars

----------------------------------------------------------------------------
(* The life of a room: meetings created from the dashboard, the reservation
   endpoint and the room lifecycle webhooks, served one after the other *)

\* Room lifecycle events
RoomPayloads == { p \in Payloads : p.eventType \in {"ROOM_CREATED", "ROOM_DESTROYED"}
                                   /\ p.roomName # EmptyName }

NextRooms ==
    \/ \E n \in FormNames, sid \in 0..MaxServers : Idle /\ CreateMeeting(n, sid)
    \/ \E j \in pending : CreateMeetingActiveServer(j)
    \/ \E j \in pending : CreateMeetingConference(j)
    \/ \E j \in pending : CreateMeetingParticipant(j)
    \/ \E j \in pending : CreateMeetingSave(j)
    \/ \E m \in Methods, n \in RoomNames, rv \in BOOLEAN : Idle /\ ApiReservation(m, n, rv)
    \/ \E j \in pending : ApiReservationRead(j)
    \/ \E j \in pending : ApiReservationSave(j)
    \/ \E j \in pending : ApiReservationUpdate(j)
    \/ \E p \in RoomPayloads : Idle /\ WebhookHandler(p)
    \/ \E j \in pending : WebhookRoomCreatedPrimary(j)
    \/ \E j \in pending : WebhookRoomCreatedActive(j)
    \/ \E j \in pending : WebhookRoomCreatedUpsert(j)
    \/ \E j \in pending : WebhookRoomCreatedCreate(j)
    \/ \E j \in pending : WebhookRoomDestroyed(j)

SpecRooms == Init /\ [][NextRooms]_vars

----------------------------------------------------------------------------
(* The webhook endpoint with every event type, beside the creation of
   meetings from the dashboard, served one after the other *)

NextWebhook ==
    \/ \E p \in Payloads : Idle /\ WebhookHandler(p)
    \/ \E j \in pending : WebhookRoomCreatedPrimary(j)
    \/ \E j \in pending : WebhookRoomCreatedActive(j)
    \/ \E j \in pending : WebhookRoomCreatedUpsert(j)
    \/ \E j \in pending : WebhookRoomCreatedCreate(j)
    \/ \E j \in pending : WebhookRoomDestroyed(j)
    \/ \E j \in pending : WebhookJoinConference(j)
    \/ \E j \in pending : WebhookJoinParticipant(j)
    \/ \E j \in pending : WebhookJoinCount(j)
    \/ \E j \in pending : WebhookJoinSave(j)
    \/ \E j \in pending : WebhookParticipantLeft(j)
    \/ \E n \in FormNames : Idle /\ CreateMeeting(n, 0)
    \/ \E j \in pending : CreateMeetingActiveServer(j)
    \/ \E j \in pending : CreateMeetingConference(j)
    \/ \E j \in pending : CreateMeetingParticipant(j)
    \/ \E j \in pending : CreateMeetingSave(j)

SpecWebhook == Init /\ [][NextWebhook]_vars

----------------------------------------------------------------------------
(* The JitsiServer table under save() *)

\* save() calls made one after the other: a call begins when no other is
\* between its two statements
NextServers ==
    \/ \E name \in ServerNames, prim \in BOOLEAN, act \in BOOLEAN :
            Idle /\ JitsiServerCreate(name, prim, act)
    \/ \E pk \in 1..MaxServers, name \in ServerNames, prim \in BOOLEAN, act \in BOOLEAN :
            Idle /\ JitsiServerUpdate(pk, name, prim, act)
    \/ \E j \in pending : JitsiServerWrite(j)

SpecServers == InitEmpty /\ [][NextServers]_vars

\* save() calls of concurrent requests: the statements of one call are
\* executed between the two statements of another
NextServersRace ==
    \/ \E name \in ServerNames, prim \in BOOLEAN, act \in BOOLEAN :
            JitsiServerCreate(name, prim, act)
    \/ \E pk \in 1..MaxServers, name \in ServerNames, prim \in BOOLEAN, act \in BOOLEAN :
            JitsiServerUpdate(pk, name, prim, act)
    \/ \E j \in pending : JitsiServerWrite(j)

SpecServersRace == InitEmpty /\ [][NextServersRace]_vars

\* create_meeting served while the servers are saved: the statements of a
\* save() are executed between the reads of JitsiServer and the INSERT of the
\* Conference
NextMeetingRace ==
    \/ \E pk \in 1..MaxServers, prim \in BOOLEAN, act \in BOOLEAN :
            \E s \in servers : s.pk = pk /\ JitsiServerUpdate(pk, s.name, prim, act)
    \/ \E j \in pending : JitsiServerWrite(j)
    \/ \E n \in { <<"a">>, <<"a", "-", "b">> }, sid \in 0..MaxServers : CreateMeeting(n, sid)
    \/ \E j \in pending : CreateMeetingActiveServer(j)
    \/ \E j \in pending : CreateMeetingConference(j)
    \/ \E j \in pending : CreateMeetingParticipant(j)
    \/ \E j \in pending : CreateMeetingSave(j)

SpecMeetingRace == Init /\ [][NextMeetingRace]_vars

----------------------------------------------------------------------------
(* The DashboardSettings table *)

\* The calls and the requests made one after the other
NextSettings ==
    \/ \E inst \in SettingsInstances : Idle /\ DashboardSettingsSave(inst)
    \/ \E j \in pending : DashboardSettingsInsert(j)
    \/ Idle /\ DashboardGetSettings
    \/ \E j \in pending : GetSettingsCreate(j)
    \/ Idle /\ SettingsView
    \/ \E j \in pending, ri \in FormValues, je \in FormValues, dm \in BOOLEAN, sg \in BOOLEAN :
            SettingsViewSave(j, ri, je, dm, sg)

SpecSettings == InitEmpty /\ [][NextSettings]_vars

\* The instances saved beside the requests that race with the save()
RaceInstances == { i \in SettingsInstances : i.pk = 1 /\ i.dark_mode }

\* The calls and the requests made concurrently
NextSettingsRace ==
    \/ \E inst \in RaceInstances : DashboardSettingsSave(inst)
    \/ \E j \in pending : DashboardSettingsInsert(j)
    \/ DashboardGetSettings
    \/ \E j \in pending : GetSettingsCreate(j)
    \/ \E j \in pending : GetSettingsAgain(j)
    \/ SettingsView
    \/ \E j \in pending, ri \in {"10", "x"} : SettingsViewSave(j, ri, "absent", TRUE, TRUE)

SpecSettingsRace == InitEmpty /\ [][NextSettingsRace]_vars

----------------------------------------------------------------------------
(* One room over time: the clock advances while the requests are served one
   after the other *)

\* The room the requests are about, and its lifecycle events
ClockRoom == <<"a">>
ClockPayloads == { p \in RoomPayloads : p.roomName = ClockRoom }

NextClock ==
    \/ Tick
    \/ \E sid \in 0..MaxServers : Idle /\ CreateMeeting(ClockRoom, sid)
    \/ \E j \in pending : CreateMeetingActiveServer(j)
    \/ \E j \in pending : CreateMeetingConference(j)
    \/ \E j \in pending : CreateMeetingParticipant(j)
    \/ \E j \in pending : CreateMeetingSave(j)
    \/ \E m \in Methods, rv \in BOOLEAN : Idle /\ ApiReservation(m, ClockRoom, rv)
    \/ \E j \in pending : ApiReservationRead(j)
    \/ \E j \in pending : ApiReservationSave(j)
    \/ \E j \in pending : ApiReservationUpdate(j)
    \/ \E p \in ClockPayloads : Idle /\ WebhookHandler(p)
    \/ \E j \in pending : WebhookRoomCreatedPrimary(j)
    \/ \E j \in pending : WebhookRoomCreatedActive(j)
    \/ \E j \in pending : WebhookRoomCreatedUpsert(j)
    \/ \E j \in pending : WebhookRoomCreatedCreate(j)
    \/ \E j \in pending : WebhookRoomDestroyed(j)

SpecClock == Init /\ [][NextClock]_vars

----------------------------------------------------------------------------
(* One room, its webhooks and the reservation endpoint served concurrently:
   the statements of one request are executed between two statements of
   another *)

\* The events of ClockRoom, with its participants
SyncPayloads == { p \in Payloads : p.roomName = ClockRoom /\ p.eventType \in HandledTypes }

\* The events of ClockRoom that the requests race with
RacePayloads == { p \in SyncPayloads : p.eventType \in {"ROOM_CREATED", "PARTICIPANT_JOINED"}
                                       /\ p.participantId # "p1" }

\* The events of ClockRoom a PARTICIPANT_JOINED webhook is served with
JoinRacePayloads == { p \in SyncPayloads : p.eventType # "PARTICIPANT_LEFT"
                                           /\ p.participantId # "p1" }

NextRace ==
    \/ Idle /\ CreateMeeting(ClockRoom, 0)
    \/ \E j \in pending : CreateMeetingActiveServer(j)
    \/ \E j \in pending : CreateMeetingConference(j)
    \/ \E j \in pending : CreateMeetingParticipant(j)
    \/ \E j \in pending : CreateMeetingSave(j)
    \/ \E p \in JoinRacePayloads : WebhookHandler(p)
    \/ \E j \in pending : WebhookRoomCreatedPrimary(j)
    \/ \E j \in pending : WebhookRoomCreatedActive(j)
    \/ \E j \in pending : WebhookRoomCreatedUpsert(j)
    \/ \E j \in pending : WebhookRoomCreatedCreate(j)
    \/ \E j \in pending : WebhookRoomDestroyed(j)
    \/ \E j \in pending : WebhookJoinConference(j)
    \/ \E j \in pending : WebhookJoinParticipant(j)
    \/ \E j \in pending : WebhookJoinCount(j)
    \/ \E j \in pending : WebhookJoinSave(j)
    \/ \E m \in Methods : ApiReservation(m, ClockRoom, FALSE)
    \/ \E j \in pending : ApiReservationRead(j)
    \/ \E j \in pending : ApiReservationSave(j)
    \/ \E j \in pending : ApiReservationUpdate(j)

SpecRace == Init /\ [][NextRace]_vars

----------------------------------------------------------------------------
(* The participants of a conference synchronised with the Jitsi server, and a
   participant kicked *)

\* One room: its meeting, its events, the synchronisation and the kick, the
\* requests served one after the other
NextSync ==
    \/ Tick
    \/ Idle /\ CreateMeeting(ClockRoom, 0)
    \/ \E j \in pending : CreateMeetingActiveServer(j)
    \/ \E j \in pending : CreateMeetingConference(j)
    \/ \E j \in pending : CreateMeetingParticipant(j)
    \/ \E j \in pending : CreateMeetingSave(j)
    \/ \E p \in SyncPayloads : Idle /\ WebhookHandler(p)
    \/ \E j \in pending : WebhookRoomCreatedPrimary(j)
    \/ \E j \in pending : WebhookRoomCreatedActive(j)
    \/ \E j \in pending : WebhookRoomCreatedUpsert(j)
    \/ \E j \in pending : WebhookRoomCreatedCreate(j)
    \/ \E j \in pending : WebhookRoomDestroyed(j)
    \/ \E j \in pending : WebhookJoinConference(j)
    \/ \E j \in pending : WebhookJoinParticipant(j)
    \/ \E j \in pending : WebhookJoinCount(j)
    \/ \E j \in pending : WebhookJoinSave(j)
    \/ \E j \in pending : WebhookParticipantLeft(j)
    \/ \E pk \in 1..MaxConf, ok \in CallResults, occ \in OccupantLists :
            Idle /\ SyncConferenceParticipants(pk, ok, occ)
    \/ \E j \in pending : SyncOccupant(j)
    \/ \E j \in pending : SyncOccupantCreate(j)
    \/ \E j \in pending : SyncLeft(j)
    \/ \E j \in pending : SyncSave(j)
    \/ \E cpk \in 1..MaxConf, ppk \in 1..MaxPart : Idle /\ KickParticipantView(cpk, ppk)
    \/ \E j \in pending, ok \in CallResults : KickParticipantRead(j, ok)
    \/ \E j \in pending : KickParticipantSave(j)

SpecSync == Init /\ [][NextSync]_vars

\* One room, the requests of the dashboard, of Jicofo and of the webhook
\* served concurrently
NextDashboardRace ==
    \/ CreateMeeting(ClockRoom, 0)
    \/ \E j \in pending : CreateMeetingActiveServer(j)
    \/ \E j \in pending : CreateMeetingConference(j)
    \/ \E j \in pending : CreateMeetingParticipant(j)
    \/ \E j \in pending : CreateMeetingSave(j)
    \/ \E pk \in 1..MaxConf : EditConference(pk)
    \/ \E j \in pending : EditConferenceSave(j, ClockRoom, "ended")
    \/ ApiReservation("POST", ClockRoom, FALSE)
    \/ \E j \in pending : ApiReservationRead(j)
    \/ \E j \in pending : ApiReservationSave(j)
    \/ \E p \in RacePayloads : WebhookHandler(p)
    \/ \E j \in pending : WebhookRoomCreatedPrimary(j)
    \/ \E j \in pending : WebhookRoomCreatedActive(j)
    \/ \E j \in pending : WebhookRoomCreatedUpsert(j)
    \/ \E j \in pending : WebhookRoomCreatedCreate(j)
    \/ \E j \in pending : WebhookJoinConference(j)
    \/ \E j \in pending : WebhookJoinParticipant(j)
    \/ \E j \in pending : WebhookJoinCount(j)
    \/ \E j \in pending : WebhookJoinSave(j)

SpecDashboardRace == Init /\ [][NextDashboardRace]_vars

\* One room, the synchronisation and the kick served concurrently with each
\* other, with the creation of its meeting and with its deletion
NextSyncRace ==
    \/ Idle /\ CreateMeeting(ClockRoom, 0)
    \/ \E j \in pending : CreateMeetingActiveServer(j)
    \/ \E j \in pending : CreateMeetingConference(j)
    \/ \E j \in pending : CreateMeetingParticipant(j)
    \/ \E j \in pending : CreateMeetingSave(j)
    \/ \E pk \in 1..MaxConf : DeleteConference(pk)
    \/ \E j \in pending : DeleteConferenceRevoke(j)
    \/ \E j \in pending : DeleteConferenceDelete(j)
    \/ \E pk \in 1..MaxConf, ok \in CallResults, occ \in { <<>>, <<"p1">> } :
            SyncConferenceParticipants(pk, ok, occ)
    \/ \E j \in pending : SyncOccupant(j)
    \/ \E j \in pending : SyncOccupantCreate(j)
    \/ \E j \in pending : SyncLeft(j)
    \/ \E j \in pending : SyncSave(j)
    \/ \E cpk \in 1..MaxConf, ppk \in 1..MaxPart : KickParticipantView(cpk, ppk)
    \/ \E j \in pending, ok \in CallResults : KickParticipantRead(j, ok)
    \/ \E j \in pending : KickParticipantSave(j)
    \/ \E j \in pending : KickParticipantInsert(j)
    \/ \E j \in pending : ConferenceInsert(j)

SpecSyncRace == Init /\ [][NextSyncRace]_vars

\* One room, the reservation endpoint served concurrently with the deletion
\* of its meeting
NextReservationRace ==
    \/ Idle /\ CreateMeeting(ClockRoom, 0)
    \/ \E j \in pending : CreateMeetingActiveServer(j)
    \/ \E j \in pending : CreateMeetingConference(j)
    \/ \E j \in pending : CreateMeetingParticipant(j)
    \/ \E j \in pending : CreateMeetingSave(j)
    \/ \E pk \in 1..MaxConf : DeleteConference(pk)
    \/ \E j \in pending : DeleteConferenceRevoke(j)
    \/ \E j \in pending : DeleteConferenceDelete(j)
    \/ \E m \in Methods : ApiReservation(m, ClockRoom, FALSE)
    \/ \E j \in pending : ApiReservationRead(j)
    \/ \E j \in pending : ApiReservationSave(j)
    \/ \E j \in pending : ApiReservationUpdate(j)
    \/ \E j \in pending : ConferenceInsert(j)

SpecReservationRace == Init /\ [][NextReservationRace]_vars

----------------------------------------------------------------------------
(* The webhook endpoint beside the settings that switch webhooks off and
   configure their secret, the requests served one after the other *)

\* The settings rows the admin page saves: webhooks on or off, with or without
\* a secret
SwitchInstances ==
    { [DefaultSettings(1) EXCEPT !.enable_webhooks = e, !.webhook_secret = w] :
        e \in BOOLEAN, w \in {"", "s3cret"} }

NextSwitch ==
    \/ \E inst \in SwitchInstances : Idle /\ DashboardSettingsSave(inst)
    \/ \E j \in pending : DashboardSettingsInsert(j)
    \/ \E p \in Payloads, secret \in Secrets : Idle /\ WebhookRequest(p, secret)
    \/ \E j \in pending : WebhookRoomCreatedPrimary(j)
    \/ \E j \in pending : WebhookRoomCreatedActive(j)
    \/ \E j \in pending : WebhookRoomCreatedUpsert(j)
    \/ \E j \in pending : WebhookRoomCreatedCreate(j)
    \/ \E j \in pending : WebhookRoomDestroyed(j)
    \/ \E j \in pending : WebhookJoinConference(j)
    \/ \E j \in pending : WebhookJoinParticipant(j)
    \/ \E j \in pending : WebhookJoinCount(j)
    \/ \E j \in pending : WebhookJoinSave(j)
    \/ \E j \in pending : WebhookParticipantLeft(j)

SpecSwitch == Init /\ [][NextSwitch]_vars

----------------------------------------------------------------------------
(* The JitsiAPI client *)

\* A client and the arguments of its next call, at some instant
InitApi ==
    /\ servers = {}
    /\ nextServerPk = 1
    /\ lastPrimary = 0
    /\ conferences = {}
    /\ nextConfPk = 1
    /\ confInserts = 0
    /\ participants = {}
    /\ nextPartPk = 1
    /\ revokeCalls = {}
    /\ settingsRows = {}
    /\ settingsObj = <<>>
    /\ now \in 0..MaxClock
    /\ resp = NoRequest
    /\ webhookEvents = {}
    /\ nextEventPk = 1
    /\ pending = {}
    /\ jwtCall \in ApiCalls
    /\ jwtResult = NoResult

\* api.generate_jwt_token(room_name, ..., expiry_hours)
CallGenerateJwtToken ==
    LET r == GenerateJwtToken(jwtCall.config, jwtCall.room_name, jwtCall.is_moderator,
                              jwtCall.expiry_hours, now)
    IN  /\ jwtResult' = [op |-> "generate_jwt_token", raised |-> r.raised,
                         token |-> r.token, url |-> <<>>]
        /\ UNCHANGED <<serverVars, confVars, revokedVars, settingsVars, now, resp,
                       eventVars, flightVars, jwtCall>>

\* api.generate_meeting_url(room_name, ..., use_jwt, config_overrides)
CallGenerateMeetingUrl ==
    LET r == GenerateMeetingUrl(jwtCall.config, jwtCall.room_name, jwtCall.is_moderator,
                                jwtCall.use_jwt, jwtCall.config_overrides, now)
    IN  /\ jwtResult' = [op |-> "generate_meeting_url", raised |-> r.raised,
                         token |-> <<>>, url |-> r.url]
        /\ UNCHANGED <<serverVars, confVars, revokedVars, settingsVars, now, resp,
                       eventVars, flightVars, jwtCall>>

NextApi ==
    \/ CallGenerateJwtToken
    \/ CallGenerateMeetingUrl

SpecApi == InitApi /\ [][NextApi]_vars

----------------------------------------------------------------------------
(* Properties *)

\* A step of api_reservation
ReservationServed ==
    \/ \E m \in Methods, n \in RoomNames \cup {EmptyName}, rv \in BOOLEAN :
            ApiReservation(m, n, rv)
    \/ \E j \in pending :
            ApiReservationRead(j) \/ ApiReservationSave(j) \/ ApiReservationUpdate(j)

\* The step in which api_reservation answers a request with method m for a
\* named room: the answer names the request.  When the requests are served
\* one after the other, the Conference table before that step is the table
\* before the request, since the statements before the last one are reads.
ReservationStep(m) ==
    /\ resp'.op = "api_reservation" /\ resp'.method = m /\ resp'.room # EmptyName
    /\ resp'.status # 0
    /\ ReservationServed

\* A step of api_reservation before its answer
ReservationGoesOn ==
    resp'.op = "api_reservation" /\ resp'.status = 0 /\ ReservationServed

\* What C1 compares: the rows of the two tables, the status of each conference
\* and whether each participant has left
Observed(db) ==
    [conferences |-> { <<c.pk, c.status>> : c \in db.conferences },
     participants |-> { <<p.pk, p.left_at # NULL>> : p \in db.participants }]

HandledPayloads ==
    { p \in Payloads : p.valid /\ p.eventType \in HandledTypes }

\* C1: in every reachable state and for every payload of a handled type,
\* delivering the payload twice in a row leaves the Conference and Participant
\* tables with the same rows, statuses and left flags as delivering it once.
C1_WebhookIdempotent ==
    \A p \in HandledPayloads :
        LET once == WebhookDispatch(CurrentDB, servers, p, now).db
            twice == WebhookDispatch(once, servers, p, now).db
        IN  Observed(twice) = Observed(once)

\* C3: for a revoked room api_reservation answers 404 for every method and
\* leaves the Conference table as it was.
C3_RevokedReservationDenied ==
    [][ /\ \A m \in Methods :
                (ReservationStep(m) /\ resp'.revoked)
                    => (resp'.status = 404 /\ conferences' = conferences)
        /\ (ReservationGoesOn /\ resp'.revoked)
                => (pending' = pending /\ conferences' = conferences) ]_vars

\* A reservation DELETE for a revoked room was refused while a conference row
\* of that name, not ended, is in the table.
C3_Witness ==
    /\ resp.op = "api_reservation" /\ resp.method = "DELETE" /\ resp.status = 404
    /\ resp.revoked
    /\ \E c \in conferences : c.room_name = Lower(resp.room) /\ c.status # "ended"

\* C4: for a room that is not revoked, reservation GET and POST answer 200
\* exactly when a Conference row with the lower-cased room name exists and 404
\* otherwise; a 404 leaves the Conference table unchanged and so does a GET.
C4_ReservationFindsRoom ==
    [][ /\ \A m \in {"GET", "POST"} :
                (ReservationStep(m) /\ ~resp'.revoked)
                    => /\ resp'.status =
                            IF \E c \in conferences : c.room_name = Lower(resp'.room)
                            THEN 200 ELSE 404
                       /\ (resp'.status = 404 => conferences' = conferences)
                       /\ (m = "GET" => conferences' = conferences)
        /\ ReservationGoesOn => conferences' = conferences ]_vars

\* A reservation POST answered 404 for a room that is not revoked although a
\* row with the room name as sent (not lower-cased) is in the table.
C4_Witness ==
    /\ resp.op = "api_reservation" /\ resp.method = "POST" /\ resp.status = 404
    /\ ~resp.revoked
    /\ \E c \in conferences : c.room_name = resp.room
    /\ ~ \E c \in conferences : c.room_name = Lower(resp.room)

\* C5: a reservation POST for a room that is not revoked and whose conference
\* is already active is answered with 409 (Conflict).
C5_PostConflict ==
    [][ ( /\ ReservationStep("POST")
          /\ ~resp'.revoked
          /\ \E c \in conferences : c.room_name = Lower(resp'.room) /\ c.status = "active" )
            => resp'.status = 409 ]_vars

\* C6: api_reservation answers 200 to GET or POST only for rooms that have a
\* Conference row created by create_meeting.
C6_StrictReservation ==
    (resp.op = "api_reservation" /\ resp.method \in {"GET", "POST"} /\ resp.status = 200)
        => \E c \in conferences : c.room_name = Lower(resp.room) /\ c.origin = "dashboard"

\* The conference rows named n, and the step kinds C7 speaks of
RowsNamed(confs, n) == { c \in confs : c.room_name = n }
OneRow(n) == Cardinality(RowsNamed(conferences, n)) = 1
\* A step of webhook_handler after the event was logged
WebhookGoesOn(j) ==
    \/ WebhookRoomCreatedPrimary(j) \/ WebhookRoomCreatedActive(j)
    \/ WebhookRoomCreatedUpsert(j) \/ WebhookRoomCreatedCreate(j)
    \/ WebhookRoomDestroyed(j)
    \/ WebhookJoinConference(j) \/ WebhookJoinParticipant(j)
    \/ WebhookJoinCount(j) \/ WebhookJoinSave(j)
    \/ WebhookParticipantLeft(j)
\* The step in which webhook_handler answers an event of the type for the room
\* n.  For a room event the Conference table before that step is the table
\* before the request, when the requests are served one after the other.
WebhookStep(type, n) ==
    /\ resp'.op = "webhook_handler" /\ resp'.method = type /\ resp'.room = n
    /\ resp'.status # 0
    /\ \E j \in pending : WebhookGoesOn(j)
ReservationStepFor(m, n) == ReservationStep(m) /\ resp'.room = n
\* The status after the step of the one row that was named n before it
StatusAfter(n) ==
    LET c == CHOOSE c \in conferences : c.room_name = n
    IN  (CHOOSE d \in conferences' : d.pk = c.pk).status
StatusBefore(n) == (CHOOSE c \in conferences : c.room_name = n).status

\* C7 (as claimed): for a non-revoked room with exactly one Conference row, the
\* status after ROOM_CREATED or a reservation POST is 'active' and after
\* ROOM_DESTROYED or a reservation DELETE is 'ended', whatever it was before.
C7_LastWriteWins ==
    [][ \A n \in RoomNames :
            (OneRow(n) /\ ~resp'.revoked)
                => /\ (WebhookStep("ROOM_CREATED", n) \/ ReservationStepFor("POST", n))
                        => StatusAfter(n) = "active"
                   /\ (WebhookStep("ROOM_DESTROYED", n) \/ ReservationStepFor("DELETE", n))
                        => StatusAfter(n) = "ended" ]_vars

\* C7 (amended): for a non-revoked room with exactly one Conference row, a
\* reservation POST (DELETE) for the room's lower-case name leaves the status
\* 'active' ('ended') whatever it was; ROOM_DESTROYED writes 'ended' only over
\* 'active' and leaves any other status as it was; ROOM_CREATED writes 'active'
\* only when the row belongs to the server the handler selects and leaves the
\* row as it was otherwise.
C7_LastWriteWinsAmended ==
    [][ \A n \in RoomNames :
            (OneRow(n) /\ ~resp'.revoked)
                => /\ (ReservationStepFor("POST", n) /\ n = Lower(n))
                        => StatusAfter(n) = "active"
                   /\ (ReservationStepFor("DELETE", n) /\ n = Lower(n))
                        => StatusAfter(n) = "ended"
                   /\ WebhookStep("ROOM_DESTROYED", n)
                        => StatusAfter(n) = IF StatusBefore(n) = "active"
                                            THEN "ended" ELSE StatusBefore(n)
                   /\ WebhookStep("ROOM_CREATED", n)
                        => StatusAfter(n) =
                            IF \E s \in DefaultServer(servers) :
                                  s.pk = (CHOOSE c \in conferences : c.room_name = n).server
                            THEN "active" ELSE StatusBefore(n) ]_vars

\* ROOM_DESTROYED was handled for a room whose only row is still 'scheduled'.
C7_Witness ==
    /\ resp.op = "webhook_handler" /\ resp.method = "ROOM_DESTROYED" /\ resp.status = 200
    /\ ~resp.revoked
    /\ Cardinality(RowsNamed(conferences, resp.room)) = 1
    /\ \A c \in RowsNamed(conferences, resp.room) : c.status = "scheduled"

RoomCreated(n) ==
    [valid |-> TRUE, eventType |-> "ROOM_CREATED", roomName |-> n, participantId |-> "",
     room |-> "absent"]
ParticipantJoined(n, pid) ==
    [valid |-> TRUE, eventType |-> "PARTICIPANT_JOINED", roomName |-> n,
     participantId |-> pid, room |-> "absent"]
HasParticipant(db, n, pid) ==
    \E c \in db.conferences, p \in db.participants :
        c.room_name = n /\ p.conference = c.pk /\ p.participant_id = pid

\* C8: when a server exists and the ROOM_CREATED and PARTICIPANT_JOINED
\* webhooks of one room are both delivered, in either order, the room's
\* conference afterwards has a Participant row for that participant.
C8_JoinInEitherOrder ==
    \A n \in RoomNames, pid \in ParticipantIds :
        servers # {} =>
            LET created(db) == WebhookDispatch(db, servers, RoomCreated(n), now).db
                joined(db) == WebhookDispatch(db, servers, ParticipantJoined(n, pid), now).db
            IN  /\ HasParticipant(joined(created(CurrentDB)), n, pid)
                /\ HasParticipant(created(joined(CurrentDB)), n, pid)

\* C9: when save() calls are made one after the other, at most one JitsiServer
\* row has is_primary=True, and it is the row most recently saved with
\* is_primary=True.
C9_OnePrimary ==
    /\ Cardinality({ s \in servers : s.is_primary }) <= 1
    /\ \A s \in servers : s.is_primary => s.pk = lastPrimary

\* Several servers, the primary one being the row saved last as primary and
\* not the one created last.
C9_Witness ==
    /\ resp.op = "server_save"
    /\ pending = {}
    /\ Cardinality(servers) >= 2
    /\ \E s \in servers : s.is_primary /\ s.pk = lastPrimary /\ s.pk + 1 < nextServerPk

\* C10: the DashboardSettings table holds at most one row, with pk 1, after any
\* statement of save(), get_settings() or a settings_view POST made one after
\* the other; get_settings() returns that row without writing when there is
\* one, and when the table is empty it inserts a row of default values and
\* returns it.
C10_SettingsSingleton ==
    [][ /\ Cardinality(settingsRows') <= 1
        /\ \A r \in settingsRows' : r.pk = 1
        /\ DashboardGetSettings
            => /\ settingsRows' = settingsRows
               /\ IF settingsRows = {}
                  THEN \E j \in pending' : j.op = "get_settings" /\ j.stage = "create"
                  ELSE pending' = pending /\ settingsRows = { settingsObj'[1] }
        /\ \A j \in pending :
                (j.op = "get_settings" /\ GetSettingsCreate(j))
                    => /\ pending' = pending \ { j }
                       /\ settingsObj'[1] = DefaultSettings(1)
                       /\ settingsRows' = { settingsObj'[1] } ]_vars

\* get_settings() returned the stored row, one that was saved with values
\* other than the defaults.
C10_Witness ==
    /\ resp.op = "get_settings"
    /\ settingsObj # <<>>
    /\ settingsObj[1] # DefaultSettings(1)
    /\ settingsRows = { settingsObj[1] }

\* The step in which webhook_handler reads the body p of a POST and logs the
\* event: the answer names the event.
WebhookPost(p) ==
    /\ resp'.op = "webhook_handler" /\ resp'.method = p.eventType
    /\ resp'.room = p.roomName
    /\ WebhookHandler(p)

\* The WebhookEvent table after one row for body p was added to it
OneEventAdded(p) ==
    /\ Cardinality(webhookEvents') = Cardinality(webhookEvents) + 1
    /\ webhookEvents \subseteq webhookEvents'
    /\ \A e \in webhookEvents' \ webhookEvents :
            /\ e.event_type = (IF p.eventType = "absent" THEN "OTHER" ELSE p.eventType)
            /\ e.room_name = p.roomName

\* C11: every POST to webhook_handler whose body is a JSON object adds
\* exactly one WebhookEvent row with the body's event type ('OTHER' when
\* absent) and room name, for every event type, and no later statement of the
\* request (the handler of the type) adds or removes a row.
C11_EveryEventLogged ==
    [][ /\ \A p \in Payloads : (WebhookPost(p) /\ p.valid) => OneEventAdded(p)
        /\ \A j \in pending : WebhookGoesOn(j) => webhookEvents' = webhookEvents ]_vars

\* webhook_handler with nothing served between its statements: the tables
\* it leaves and the HTTP status
WebhookServed(events, pk, db, srv, p, t) ==
    LET r == WebhookDispatch(db, srv, p, t)
    IN  [events |-> IF EventLogged(p) THEN WebhookLogged(events, pk, p) ELSE events,
         db |-> r.db,
         status |-> IF r.raised THEN 400 ELSE 200]

\* C12: between two requests, a webhook request that is going to be answered
\* with status 400 leaves the WebhookEvent, Conference and Participant tables
\* as they were before the request.
C12_ErrorLeavesTables ==
    Idle =>
        \A p \in Payloads :
            LET r == WebhookServed(webhookEvents, nextEventPk, CurrentDB, servers, p, now)
            IN  r.status = 400
                    => /\ r.events = webhookEvents
                       /\ r.db.conferences = conferences
                       /\ r.db.participants = participants

\* The settings in force: the row get_settings() would return
SettingsInForce ==
    IF \E r \in settingsRows : r.pk = 1
    THEN CHOOSE r \in settingsRows : r.pk = 1
    ELSE DefaultSettings(1)

\* Webhooks are switched off, or a secret is configured and the request does
\* not carry it
WebhookRefused(secret) ==
    \/ ~SettingsInForce.enable_webhooks
    \/ SettingsInForce.webhook_secret # "" /\ secret # SettingsInForce.webhook_secret

\* C13: when enable_webhooks is False, or when a webhook_secret is configured
\* and the request does not carry it, no statement of webhook_handler changes
\* a Conference or Participant row.
C13_WebhooksSwitchedOff ==
    [][ \A secret \in Secrets :
            WebhookRefused(secret)
                => /\ \A p \in Payloads :
                        (WebhookPost(p) /\ WebhookRequest(p, secret))
                            => UNCHANGED <<conferences, participants>>
                   /\ \A j \in pending :
                        WebhookGoesOn(j) => UNCHANGED <<conferences, participants>> ]_vars

\* The row of the table after the step that has the pk of row c
RowAfter(c) == CHOOSE d \in conferences' : d.pk = c.pk

\* The conference a reservation POST for room n writes: the newest row with
\* the lower-cased name
ReservedRow(n) == ConfFirst(RowsNamed(conferences, Lower(n)))

\* C14: a reservation POST for a room whose conference is already 'active'
\* leaves that conference's status and started_at unchanged, and a reservation
\* DELETE for a room whose conferences are already 'ended' leaves their status
\* and ended_at unchanged.
C14_ReservationIdempotent ==
    [][ \A n \in RoomNames :
            /\ ReservationStepFor("POST", n)
                => \A c \in ReservedRow(n) :
                        c.status = "active"
                            => /\ RowAfter(c).status = c.status
                               /\ RowAfter(c).started_at = c.started_at
            /\ ReservationStepFor("DELETE", n)
                => \A c \in RowsNamed(conferences, Lower(n)) :
                        c.status = "ended"
                            => /\ RowAfter(c).status = c.status
                               /\ RowAfter(c).ended_at = c.ended_at ]_vars

\* C15: no statement of the handler of a PARTICIPANT_JOINED webhook changes
\* the status or ended_at of a conference, whatever was served since the
\* handler read the conference: a conference ended in between is still
\* 'ended'.
C15_JoinKeepsStatus ==
    [][ \A j \in pending :
            (WebhookJoinConference(j) \/ WebhookJoinParticipant(j)
                \/ WebhookJoinCount(j) \/ WebhookJoinSave(j))
                => \A c \in conferences :
                        /\ RowAfter(c).status = c.status
                        /\ RowAfter(c).ended_at = c.ended_at ]_vars

\* C16: whenever started_at and ended_at of a conference are both set,
\* ended_at is not earlier than started_at, and Conference.duration is never
\* negative.
C16_TimestampsCoherent ==
    \A c \in conferences :
        /\ (c.started_at # NULL /\ c.ended_at # NULL) => c.ended_at[1] >= c.started_at[1]
        /\ Duration(c, now) >= 0

\* The URL has a jwt parameter
HasJwtParam(url) == \E i \in DOMAIN url.params : url.params[i].name = "jwt"

\* C17: generate_meeting_url never raises and its URL has a jwt parameter
\* exactly when use_jwt is true and app_secret is not empty; generate_jwt_token
\* with an empty app_secret raises and returns no token, and the token it
\* returns has nbf = iat and exp = iat + expiry_hours * 3600.
C17_JwtWhenSecret ==
    /\ jwtResult.op = "generate_meeting_url"
        => /\ ~jwtResult.raised
           /\ jwtResult.url # <<>>
           /\ HasJwtParam(jwtResult.url[1])
                <=> (jwtCall.use_jwt /\ jwtCall.config.app_secret # "")
    /\ jwtResult.op = "generate_jwt_token"
        => /\ jwtCall.config.app_secret = ""
                => (jwtResult.raised /\ jwtResult.token = <<>>)
           /\ jwtCall.config.app_secret # ""
                => (~jwtResult.raised /\ jwtResult.token # <<>>)
           /\ jwtResult.token # <<>>
                => LET payload == jwtResult.token[1].payload
                   IN  /\ payload.nbf = payload.iat
                       /\ payload.exp = payload.iat + jwtCall.expiry_hours * 3600

\* generate_meeting_url was called with use_jwt on a client without secret
\* and returned a URL whose only parameter is the config override.
C17_Witness ==
    /\ jwtResult.op = "generate_meeting_url"
    /\ jwtCall.use_jwt /\ jwtCall.config.app_secret = ""
    /\ ~jwtResult.raised
    /\ Len(jwtResult.url[1].params) = 1
    /\ ~HasJwtParam(jwtResult.url[1])

=============================================================================
